---- MODULE Spec2Model ----
(***************************************************************************)
(* thin-merge: the interval merge of two range-mapping streams             *)
(* (src/src/merge.rs, src/src/stream.rs) and the run of merge_thins_ that  *)
(* feeds the merged stream to the restorer.                                *)
(*                                                                         *)
(* Two specifications:                                                     *)
(*   Spec     RangeMergeIterator driven until it returns None, over every  *)
(*            pair of devices of the bounded key space;                    *)
(*   SpecRun  one run of merge_thins_: dispatch, producer thread, bounded  *)
(*            channel, consumer (restorer), details patch.                 *)
(***************************************************************************)
EXTENDS Integers, Sequences, FiniteSets, TLC

\* Bounds of the model: the key space of the devices, and the batch length
\* (BUFFER_LEN is 1024 in the source; the model runs it scaled down).
MaxKey == 4
BUFFER_LEN == 2

\* Keys of the devices of a whole run (SpecRun).
RunKeys == MaxKey - 1

\* The deltas handed to consume and skip (SpecStream): up to one more than the
\* longest range.
MaxDelta == MaxKey + 1

QUEUE_DEPTH == 4

\* SpecWide: the width of a machine word, standing for the 64 bits of a u64.
WordBits == 3

\* SpecIter: the engine's batch sizes are 1..MaxBatch.
MaxBatch == 2

\* SpecIter: a device's entries lie in at most MaxLeaves leaves.
MaxLeaves == MaxKey

\* The ranges of the long device of SpecPipe: enough batches to fill the
\* channel and both ends of it with some to spare, and a last, short batch.
PipeLen == (QUEUE_DEPTH + 3) * BUFFER_LEN + 1

VARIABLES
    origin,        \* range stream of the origin device, as next_range yields it
    snap,          \* range stream of the snapshot device
    base_stream,   \* RangeMergeIterator.base_stream : MappingStream
    snap_stream,   \* RangeMergeIterator.snap_stream : MappingStream
    emitted,       \* the ranges returned by the producer's iterator so far
    pc,            \* Spec: "next" while next() is called, "done" once it returned None
    opts,          \* ThinMergeOptions: origin, snapshot (Option), rebase
    roots,         \* mapping tree top level: dev id -> root of the device's tree
    details,       \* details tree: dev id -> DeviceDetail
    path,          \* which of merge / dump_single_device merge_thins_ called
    out_dev,       \* the ir::Device built by build_output_device
    dump_iter,     \* dump_single_device's MappingIterator (ranges still to yield)
    p_pc,          \* position of the producer thread
    ret,           \* the producer's binding of Some((k, v, l))
    runs,          \* the producer's batch under construction
    chan,          \* the batches queued in the sync_channel
    tx_open,       \* the sender has not been dropped
    c_pc,          \* position of the consumer (the thread that called merge_thins_)
    batch,         \* the runs of the received batch still to be applied
    mapped,        \* the runs applied with restorer.map, in order
    mapped_blocks, \* merge()'s accumulator
    out_details,   \* the device record of the output's details leaf (Option)
    error,         \* the Err merge_thins_ returned (Option)
    ops,           \* the consumer's calls that returned Ok, in order: the restorer's,
                   \* the join of the producer, the details patch
    rx_open,       \* the receiver has not been dropped
    call,          \* SpecStream: the last MappingStream call and its result (Option)
    skipped,       \* SpecStream: the sum of the deltas skipped so far
    p_result,      \* what the producer thread returned (None while it runs)
    sent,          \* the batches tx.send accepted, in order
    mi,            \* SpecIter: the MappingIterator (leaves, batch_size,
                   \* cached_leaves, node, nr_entries, pos)
    engine,        \* SpecIter: the IoEngine's blocks: location -> leaf entries
    reads          \* SpecIter: the read_many calls that returned Ok, in order

iter_vars == <<base_stream, snap_stream, emitted>>
input_vars == <<origin, snap, opts, roots, details>>
run_vars == <<path, out_dev, dump_iter, p_pc, ret, runs, chan, tx_open, c_pc, batch,
              mapped, mapped_blocks, out_details, error, ops, rx_open, p_result, sent>>
stream_vars == <<call, skipped>>
mi_vars == <<mi, engine, reads>>

vars == <<origin, snap, base_stream, snap_stream, emitted, pc, opts, roots, details,
          path, out_dev, dump_iter, p_pc, ret, runs, chan, tx_open, c_pc, batch,
          mapped, mapped_blocks, out_details, error, ops, rx_open, call, skipped,
          p_result, sent, mi, engine, reads>>

----------------------------------------------------------------------------
\* Option<T> is a sequence of length 0 or 1.
None == <<>>
Some(x) == <<x>>

\* A range (u64, BlockTime, u64): thin_begin, (block, time), len.
Range(k, b, t, l) == [thin_begin |-> k, block |-> b, time |-> t, len |-> l]

----------------------------------------------------------------------------
\* The devices of the model: point mappings key -> BlockTime, key < MaxKey.
\* A mapped key k of class c maps to block k + c.off at time c.time, so that
\* neighbouring keys of one class are contiguous in data and coalesce.
ClassA == [off |-> 0, time |-> 0]
ClassB == [off |-> MaxKey, time |-> 0]
ClassC == [off |-> 0, time |-> 1]

\* What the origin's and the snapshot's keys may map to; class A is shared
\* (a snapshot shares data blocks with its origin until either is written).
OriginClasses == <<ClassA, ClassB>>
SnapClasses == <<ClassA, ClassC>>

\* The sorted (key, value) entries of the leaves of a device: f[k] = 0 is an
\* unmapped key, f[k] = c > 0 a key of class classes[c].
RECURSIVE LeafEntries(_, _, _, _)
LeafEntries(f, classes, k, n) ==
    IF k >= n THEN <<>>
    ELSE IF f[k] = 0 THEN LeafEntries(f, classes, k + 1, n)
    ELSE <<[key |-> k, block |-> k + classes[f[k]].off, time |-> classes[f[k]].time]>>
         \o LeafEntries(f, classes, k + 1, n)

\* MappingIterator::next_range over all the entries: a run starting at
\* (k0, v0) is extended while the next entry is (k0+len, v0.block+len, v0.time).
RECURSIVE Coalesce(_, _)
Coalesce(entries, acc) ==
    IF entries = <<>> THEN acc
    ELSE LET e == Head(entries)
             n == Len(acc)
         IN IF /\ n > 0
               /\ e.key = acc[n].thin_begin + acc[n].len
               /\ e.block = acc[n].block + acc[n].len
               /\ e.time = acc[n].time
            THEN Coalesce(Tail(entries), [acc EXCEPT ![n].len = @ + 1])
            ELSE Coalesce(Tail(entries), Append(acc, Range(e.key, e.block, e.time, 1)))

DeviceRanges(f, classes, n) == Coalesce(LeafEntries(f, classes, 0, n), <<>>)

Trees(classes, n) == {DeviceRanges(f, classes, n) : f \in [0..(n - 1) -> 0..Len(classes)]}

----------------------------------------------------------------------------
\* MappingStream (src/src/stream.rs).  The iterator is the sequence of the
\* ranges next_range has still to yield.

\* MappingIterator::next_range: the next run, or None at the end of leaves.
next_range(iter) ==
    IF iter = <<>> THEN [ret |-> None, iter |-> iter]
    ELSE [ret |-> Some(Head(iter)), iter |-> Tail(iter)]

\* MappingStream::new
NewStream(ranges) ==
    LET n == next_range(ranges) IN [current |-> n.ret, iter |-> n.iter]

more_mappings(s) == s.current # None

get_mapping(s) == s.current

\* The three arms of consume on delta.cmp(len); each result is
\* [stream, ret, err].
consume_equal(s) ==
    LET n == next_range(s.iter)
    IN [stream |-> [current |-> n.ret, iter |-> n.iter], ret |-> s.current, err |-> FALSE]
\* Mutant of consume_less: the head's block is not advanced (bt.block += delta
\* left out).
consume_less_block_kept(s, delta) ==
    LET c == s.current[1]
    IN [stream |-> [s EXCEPT !.current = Some(Range(c.thin_begin + delta,
                                                   c.block,
                                                   c.time,
                                                   c.len - delta))],
        ret |-> Some(Range(c.thin_begin, c.block, c.time, delta)),
        err |-> FALSE]

consume_less(s, delta) ==
    LET c == s.current[1]
    IN [stream |-> [s EXCEPT !.current = Some(Range(c.thin_begin + delta,
                                                   c.block + delta,
                                                   c.time,
                                                   c.len - delta))],
        ret |-> Some(Range(c.thin_begin, c.block, c.time, delta)),
        err |-> FALSE]
\* Mutant of consume: delta == len takes the Less arm, leaving a head of len 0.
consume_equal_as_less(s, delta) ==
    IF s.current = None THEN [stream |-> s, ret |-> None, err |-> FALSE]
    ELSE IF delta > s.current[1].len THEN [stream |-> s, ret |-> None, err |-> TRUE]
    ELSE consume_less(s, delta)

consume(s, delta) ==
    IF s.current = None THEN [stream |-> s, ret |-> None, err |-> FALSE]
    ELSE IF delta > s.current[1].len THEN [stream |-> s, ret |-> None, err |-> TRUE]
    ELSE IF delta = s.current[1].len THEN consume_equal(s)
    ELSE consume_less(s, delta)

\* Mutant of skip: a partial skip drops the whole head.
skip_whole_head(s, delta) ==
    IF s.current = None THEN [stream |-> s, err |-> FALSE]
    ELSE IF delta > s.current[1].len THEN [stream |-> s, err |-> TRUE]
    ELSE LET n == next_range(s.iter)
         IN [stream |-> [current |-> n.ret, iter |-> n.iter], err |-> FALSE]

\* consume without returning
skip(s, delta) ==
    IF s.current = None THEN [stream |-> s, err |-> FALSE]
    ELSE IF delta > s.current[1].len THEN [stream |-> s, err |-> TRUE]
    ELSE IF delta = s.current[1].len
    THEN LET n == next_range(s.iter)
         IN [stream |-> [current |-> n.ret, iter |-> n.iter], err |-> FALSE]
    ELSE LET c == s.current[1]
         IN [stream |-> [s EXCEPT !.current = Some(Range(c.thin_begin + delta,
                                                        c.block + delta,
                                                        c.time,
                                                        c.len - delta))],
             err |-> FALSE]

\* Mutant of consume_all: the iterator is advanced twice.
consume_all_drop_next(s) ==
    IF s.current # None
    THEN LET n == next_range(next_range(s.iter).iter)
         IN [stream |-> [current |-> n.ret, iter |-> n.iter], ret |-> s.current, err |-> FALSE]
    ELSE [stream |-> s, ret |-> None, err |-> FALSE]

consume_all(s) ==
    IF s.current # None
    THEN LET n == next_range(s.iter)
         IN [stream |-> [current |-> n.ret, iter |-> n.iter], ret |-> s.current, err |-> FALSE]
    ELSE [stream |-> s, ret |-> None, err |-> FALSE]

\* consume_all without returning
skip_all(s) ==
    IF s.current # None
    THEN LET n == next_range(s.iter)
         IN [stream |-> [current |-> n.ret, iter |-> n.iter], err |-> FALSE]
    ELSE [stream |-> s, err |-> FALSE]

\* The text of the Err of consume and skip on Ordering::Greater.
DeltaError == "delta too lone"

----------------------------------------------------------------------------
\* RangeMergeIterator (src/src/merge.rs).

ends_before_started(left, right) == left.thin_begin + left.len <= right.thin_begin

\* Mutant of overlays_tail: equal starts also take the third arm.
overlays_tail_or_equal(base, overlay) == base.thin_begin <= overlay.thin_begin

overlays_tail(base, overlay) == base.thin_begin < overlay.thin_begin

overlays_head(base, overlay) ==
    overlay.thin_begin + overlay.len < base.thin_begin + base.len

\* Mutant of overlays_all: a base head ending with the overlay is not dropped.
overlays_all_strict(base, overlay) ==
    base.thin_begin + base.len < overlay.thin_begin + overlay.len

overlays_all(base, overlay) ==
    base.thin_begin + base.len <= overlay.thin_begin + overlay.len

\* RangeMergeIterator::new
NewMergeIterator(base_ranges, snap_ranges) ==
    [base |-> NewStream(base_ranges), snap |-> NewStream(snap_ranges)]

\* The inner loop of the last arm: drop the base heads the overlay covers.
RECURSIVE SkipCoveredLoop(_, _)
SkipCoveredLoop(bs, snap_map) ==
    IF overlays_all(bs.current[1], snap_map)
    THEN LET b2 == skip_all(bs).stream
         IN IF ~more_mappings(b2) THEN b2 ELSE SkipCoveredLoop(b2, snap_map)
    ELSE bs
\* Mutant of TailDelta: the base prefix is emitted one block at a time.
TailDelta_one(base_map, snap_map) == 1

\* Mutant of Intersected: the overlay's length, whatever the base's start.
Intersected_len(base_map, snap_map) == snap_map.len

\* The delta of the third arm and the length skipped in the fourth.
TailDelta(base_map, snap_map) == snap_map.thin_begin - base_map.thin_begin

Intersected(base_map, snap_map) ==
    snap_map.thin_begin + snap_map.len - base_map.thin_begin

\* The result of a return of next(): the streams as left, the value returned.
Returned(bs, ss, r) ==
    [base |-> bs, snap |-> ss, ret |-> r.ret, returns |-> TRUE, err |-> r.err]

\* The arms of the loop of next(), and the drain after it.
ArmSnapFirst(bs, ss) == LET r == consume_all(ss) IN Returned(bs, r.stream, r)

ArmBaseFirst(bs, ss) == LET r == consume_all(bs) IN Returned(r.stream, ss, r)

ArmBasePrefix(bs, ss) ==
    LET r == consume(bs, TailDelta(bs.current[1], ss.current[1]))
    IN Returned(r.stream, ss, r)
\* Mutant of ArmOverlayInside: the overlaid part of the base is not skipped.
ArmOverlayInside_no_skip(bs, ss) ==
    LET r == consume(ss, ss.current[1].len) IN Returned(bs, r.stream, r)

ArmOverlayInside(bs, ss) ==
    LET sk == skip(bs, Intersected(bs.current[1], ss.current[1]))
    IN IF sk.err
       THEN [base |-> sk.stream, snap |-> ss, ret |-> None, returns |-> TRUE, err |-> TRUE]
       ELSE LET r == consume(ss, ss.current[1].len) IN Returned(sk.stream, r.stream, r)

ArmCovered(bs, ss) ==
    [base |-> SkipCoveredLoop(bs, ss.current[1]), snap |-> ss,
     ret |-> None, returns |-> FALSE, err |-> FALSE]
\* Mutant of ArmDrainBase: the rest of the base is drained a block at a time.
ArmDrainBase_by_one(bs, ss) == LET r == consume(bs, 1) IN Returned(r.stream, ss, r)

ArmDrainBase(bs, ss) == LET r == consume_all(bs) IN Returned(r.stream, ss, r)

ArmDrainSnap(bs, ss) == LET r == consume_all(ss) IN Returned(bs, r.stream, r)

ArmNone(bs, ss) ==
    [base |-> bs, snap |-> ss, ret |-> None, returns |-> TRUE, err |-> FALSE]

\* Which arm next() takes with the streams as they are.
InLoop(bs, ss) == more_mappings(bs) /\ more_mappings(ss)

Arm(bs, ss) ==
    IF InLoop(bs, ss)
    THEN LET base_map == bs.current[1]
             snap_map == ss.current[1]
         IN IF ends_before_started(snap_map, base_map) THEN "snap_first"
            ELSE IF ends_before_started(base_map, snap_map) THEN "base_first"
            ELSE IF overlays_tail(base_map, snap_map) THEN "base_prefix"
            ELSE IF overlays_head(base_map, snap_map) THEN "overlay_inside"
            ELSE "covered"
    ELSE IF more_mappings(bs) THEN "drain_base"
    ELSE IF more_mappings(ss) THEN "drain_snap"
    ELSE "none"

\* One pass of the loop of next() (or the code after the loop).
IterStep(bs, ss) ==
    CASE Arm(bs, ss) = "snap_first" -> ArmSnapFirst(bs, ss)
      [] Arm(bs, ss) = "base_first" -> ArmBaseFirst(bs, ss)
      [] Arm(bs, ss) = "base_prefix" -> ArmBasePrefix(bs, ss)
      [] Arm(bs, ss) = "overlay_inside" -> ArmOverlayInside(bs, ss)
      [] Arm(bs, ss) = "covered" -> ArmCovered(bs, ss)
      [] Arm(bs, ss) = "drain_base" -> ArmDrainBase(bs, ss)
      [] Arm(bs, ss) = "drain_snap" -> ArmDrainSnap(bs, ss)
      [] OTHER -> ArmNone(bs, ss)

\* RangeMergeIterator::next: passes of the loop until one returns.
RECURSIVE MergeNext(_, _)
MergeNext(bs, ss) ==
    LET r == IterStep(bs, ss)
    IN IF r.returns THEN r ELSE MergeNext(r.base, r.snap)

----------------------------------------------------------------------------
\* The reference merger of the tests (src/tests/tools/verifier.rs).

\* ir::Map as the producer builds it from a range returned by the iterator.
ToMap(r) == [thin_begin |-> r.thin_begin, data_begin |-> r.block, time |-> r.time, len |-> r.len]

RECURSIVE ToMaps(_)
ToMaps(ranges) == IF ranges = <<>> THEN <<>> ELSE <<ToMap(Head(ranges))>> \o ToMaps(Tail(ranges))

\* ThinMap::default()
DefaultMap == [thin_begin |-> 0, data_begin |-> 0, time |-> 0, len |-> 0]

ThinMap_is_empty(m) == m.len = 0

ThinMap_end(m) == m.thin_begin + m.len

\* ThinMap::merge: whether rhs continues lhs (the run-adjacency test).
ThinMap_mergeable(lhs, rhs) ==
    /\ rhs.thin_begin = lhs.thin_begin + lhs.len
    /\ rhs.data_begin = lhs.data_begin + lhs.len
    /\ rhs.time = lhs.time

\* ThinMap::split
ThinMap_split(m, key) ==
    IF key <= m.thin_begin THEN <<DefaultMap, m>>
    ELSE IF key >= m.thin_begin + m.len THEN <<m, DefaultMap>>
    ELSE <<[thin_begin |-> m.thin_begin, data_begin |-> m.data_begin, time |-> m.time,
            len |-> key - m.thin_begin],
           [thin_begin |-> key, data_begin |-> m.data_begin + (key - m.thin_begin),
            time |-> m.time, len |-> m.len - (key - m.thin_begin)]>>

push_compact(dest, src) ==
    IF dest # <<>> /\ ThinMap_mergeable(dest[Len(dest)], src)
    THEN [dest EXCEPT ![Len(dest)].len = @ + src.len]
    ELSE Append(dest, src)

\* The mappings of a device as parse_xml collects them (ThinMetadata::map).
RECURSIVE CompactAll(_, _)
CompactAll(maps, acc) ==
    IF maps = <<>> THEN acc ELSE CompactAll(Tail(maps), push_compact(acc, Head(maps)))

\* iter.next().cloned().unwrap_or_default()
IterHead(it) == IF it = <<>> THEN DefaultMap ELSE Head(it)
IterTail(it) == IF it = <<>> THEN <<>> ELSE Tail(it)

\* The inner loop of the last arm of merge_mappings.
RECURSIVE RefSkipCovered(_, _, _)
RefSkipCovered(origin_m, origin_iter, snap_m) ==
    IF ~ThinMap_is_empty(origin_m) /\ ThinMap_end(origin_m) <= ThinMap_end(snap_m)
    THEN RefSkipCovered(IterHead(origin_iter), IterTail(origin_iter), snap_m)
    ELSE <<origin_m, origin_iter>>

\* merge_mappings: the three loops, on (origin_m, origin_iter, snap_m,
\* snap_iter, merged, mb), mb being the mapped_blocks counted so far.
RECURSIVE RefLoop(_, _, _, _, _, _)
RefLoop(origin_m, origin_iter, snap_m, snap_iter, merged, mb) ==
    IF ~ThinMap_is_empty(origin_m) /\ ~ThinMap_is_empty(snap_m)
    THEN IF ThinMap_end(snap_m) <= origin_m.thin_begin
         THEN RefLoop(origin_m, origin_iter, IterHead(snap_iter), IterTail(snap_iter),
                      push_compact(merged, snap_m), mb + snap_m.len)
         ELSE IF ThinMap_end(origin_m) <= snap_m.thin_begin
         THEN RefLoop(IterHead(origin_iter), IterTail(origin_iter), snap_m, snap_iter,
                      push_compact(merged, origin_m), mb + origin_m.len)
         ELSE IF origin_m.thin_begin < snap_m.thin_begin
         THEN LET sp == ThinMap_split(origin_m, snap_m.thin_begin)
              IN RefLoop(sp[2], origin_iter, snap_m, snap_iter,
                         push_compact(merged, sp[1]), mb + sp[1].len)
         ELSE IF ThinMap_end(snap_m) < ThinMap_end(origin_m)
         THEN LET sp == ThinMap_split(origin_m, ThinMap_end(snap_m))
              IN RefLoop(sp[2], origin_iter, IterHead(snap_iter), IterTail(snap_iter),
                         push_compact(merged, snap_m), mb + snap_m.len)
         ELSE LET sk == RefSkipCovered(origin_m, origin_iter, snap_m)
              IN RefLoop(sk[1], sk[2], snap_m, snap_iter, merged, mb)
    ELSE IF ~ThinMap_is_empty(origin_m)
    THEN RefLoop(IterHead(origin_iter), IterTail(origin_iter), snap_m, snap_iter,
                 push_compact(merged, origin_m), mb + origin_m.len)
    ELSE IF ~ThinMap_is_empty(snap_m)
    THEN RefLoop(origin_m, origin_iter, IterHead(snap_iter), IterTail(snap_iter),
                 push_compact(merged, snap_m), mb + snap_m.len)
    ELSE [merged |-> merged, mapped_blocks |-> mb]

merge_mappings(origin_mappings, snap_mappings) ==
    RefLoop(IterHead(origin_mappings), IterTail(origin_mappings),
            IterHead(snap_mappings), IterTail(snap_mappings), <<>>, 0)

----------------------------------------------------------------------------
\* Vocabulary of the properties.

RangeKeys(r) == r.thin_begin .. (r.thin_begin + r.len - 1)

Keys(ranges) == UNION {RangeKeys(ranges[i]) : i \in DOMAIN ranges}

\* How many ranges of the list cover key k.
CoverCount(ranges, k) == Cardinality({i \in DOMAIN ranges : k \in RangeKeys(ranges[i])})

\* The (block, time) the list maps key k to (k is covered).
MapAt(ranges, k) ==
    LET r == ranges[CHOOSE i \in DOMAIN ranges : k \in RangeKeys(ranges[i])]
    IN [block |-> r.block + (k - r.thin_begin), time |-> r.time]

RECURSIVE SumLen(_)
SumLen(ranges) == IF ranges = <<>> THEN 0 ELSE Head(ranges).len + SumLen(Tail(ranges))

\* The coalescing rule: range b continues range a.
Mergeable(a, b) ==
    /\ b.thin_begin = a.thin_begin + a.len
    /\ b.block = a.block + a.len
    /\ b.time = a.time

InList(r, ranges) == \E i \in DOMAIN ranges : ranges[i] = r

\* Some emitted range is a piece of a split input range.
SplitHappened == \E i \in DOMAIN emitted : ~InList(emitted[i], origin) /\ ~InList(emitted[i], snap)

\* Some key is mapped by both devices, to different values.
Contended == \E k \in Keys(origin) \cap Keys(snap) : MapAt(origin, k) # MapAt(snap, k)

----------------------------------------------------------------------------
\* merge_thins_ and the restore pipeline (src/src/merge.rs).

\* A DeviceDetail of the input; the fields of the two devices differ, so that
\* the device an output record comes from can be told.
DetailOf(id, n) ==
    [mapped_blocks |-> n, transaction_id |-> 10 + id,
     creation_time |-> 20 + id, snapshotted_time |-> 30 + id]

\* The two messages of get_device_root_and_details.
NoMappingTree == "Unable to find mapping tree for the device"
NoDetails == "Unable to find the details for the device"

\* anyhow!("... {}", dev_id)
DeviceError(msg, dev_id) == [msg |-> msg, dev_id |-> dev_id]

\* Mutant of get_device_root_and_details: one message for both trees.
get_device_root_and_details_one_message(dev_id, rts, dts) ==
    IF dev_id \notin DOMAIN rts \/ dev_id \notin DOMAIN dts
    THEN [err |-> Some(DeviceError(NoMappingTree, dev_id)), root |-> 0, details |-> None]
    ELSE [err |-> None, root |-> rts[dev_id], details |-> dts[dev_id]]

\* get_device_root_and_details: the mapping tree is looked up first, then the
\* details tree; err is the Err returned, None for Ok((root, details)).
get_device_root_and_details(dev_id, rts, dts) ==
    IF dev_id \notin DOMAIN rts
    THEN [err |-> Some(DeviceError(NoMappingTree, dev_id)), root |-> 0, details |-> None]
    ELSE IF dev_id \notin DOMAIN dts
    THEN [err |-> Some(DeviceError(NoDetails, dev_id)), root |-> 0, details |-> None]
    ELSE [err |-> None, root |-> rts[dev_id], details |-> dts[dev_id]]

\* Mutant of build_output_device: mapped_blocks starts from zero instead of
\* being copied from the input's detail.
build_output_device_no_count(dev_id, d) ==
    [dev_id |-> dev_id,
     mapped_blocks |-> 0,
     transaction |-> d.transaction_id,
     creation_time |-> d.creation_time,
     snap_time |-> d.snapshotted_time]

build_output_device(dev_id, d) ==
    [dev_id |-> dev_id,
     mapped_blocks |-> d.mapped_blocks,
     transaction |-> d.transaction_id,
     creation_time |-> d.creation_time,
     snap_time |-> d.snapshotted_time]

\* Mutant of OutputDevice: the origin's record also in rebase mode.
OutputDevice_origin_always(origin_id, origin_details, snap_id, snap_details, rebase) ==
    build_output_device(origin_id, origin_details)

\* Mutant of OutputDevice: in rebase mode the snapshot's details under the
\* origin's id.
OutputDevice_origin_id(origin_id, origin_details, snap_id, snap_details, rebase) ==
    IF rebase THEN build_output_device(origin_id, snap_details)
    ELSE build_output_device(origin_id, origin_details)

\* The out_dev of a run with a snapshot id (merge_thins_, lines 413-417).
OutputDevice(origin_id, origin_details, snap_id, snap_details, rebase) ==
    IF rebase THEN build_output_device(snap_id, snap_details)
    ELSE build_output_device(origin_id, origin_details)

\* Mutant of SameRoot: the fallback to the dump is never taken.
SameRoot_never(origin_root, snap_root) == FALSE

\* The test of the fallback: origin_root == snap_root (merge_thins_, line 419).
SameRoot(origin_root, snap_root) == origin_root = snap_root

\* Mutant of MergeArguments: base and overlay change places in rebase mode.
MergeArguments_swapped(origin_ranges, snap_ranges, rebase) ==
    IF rebase THEN <<snap_ranges, origin_ranges>> ELSE <<origin_ranges, snap_ranges>>

\* The (base, overlay) that merge_thins_ hands to merge(): origin_root and
\* snap_root, in that order, whatever rebase is (lines 430-438).
MergeArguments(origin_ranges, snap_ranges, rebase) == <<origin_ranges, snap_ranges>>

\* Mutant of update_device_details: the leaf is written back unpatched.
update_device_details_unpatched(d, n) == d

\* update_device_details: values[0].mapped_blocks of the output's details leaf.
update_device_details(d, n) == [d EXCEPT !.mapped_blocks = n]

\* The state of the variables of a run before merge_thins_ is called.
IdleRun ==
    /\ path = "none"
    /\ out_dev = None
    /\ dump_iter = <<>>
    /\ p_pc = "unborn"
    /\ ret = None
    /\ runs = <<>>
    /\ chan = <<>>
    /\ tx_open = FALSE
    /\ c_pc = "call"
    /\ batch = <<>>
    /\ mapped = <<>>
    /\ mapped_blocks = 0
    /\ out_details = None
    /\ error = None
    /\ ops = <<>>
    /\ rx_open = FALSE
    /\ p_result = None
    /\ sent = <<>>

\* No MappingStream call has been made.
IdleStream ==
    /\ call = None
    /\ skipped = 0

\* No MappingIterator has been built.
IdleIter ==
    /\ mi = <<>>
    /\ engine = <<>>
    /\ reads = <<>>

----------------------------------------------------------------------------
\* Spec: the merge iterator alone, called until it returns None.

Init ==
    /\ origin \in Trees(OriginClasses, MaxKey)
    /\ snap \in Trees(SnapClasses, MaxKey)
    /\ base_stream = NewMergeIterator(origin, snap).base
    /\ snap_stream = NewMergeIterator(origin, snap).snap
    /\ emitted = <<>>
    /\ pc = "next"
    /\ opts = [origin |-> 1, snapshot |-> Some(2), rebase |-> FALSE]
    /\ roots = (1 :> 1) @@ (2 :> 2)
    /\ details = (1 :> DetailOf(1, SumLen(origin))) @@ (2 :> DetailOf(2, SumLen(snap)))
    /\ IdleRun
    /\ IdleStream
    /\ IdleIter

\* The effect of one pass on the state of the iterator and of its caller.
Pass(r) ==
    /\ base_stream' = r.base
    /\ snap_stream' = r.snap
    /\ emitted' = IF r.ret # None /\ ~r.err THEN Append(emitted, r.ret[1]) ELSE emitted
    /\ pc' = IF r.err THEN "failed"
             ELSE IF r.returns /\ r.ret = None THEN "done"
             ELSE "next"
    /\ UNCHANGED <<input_vars, run_vars, stream_vars, mi_vars>>

SnapFirst ==
    /\ pc = "next"
    /\ Arm(base_stream, snap_stream) = "snap_first"
    /\ Pass(ArmSnapFirst(base_stream, snap_stream))

BaseFirst ==
    /\ pc = "next"
    /\ Arm(base_stream, snap_stream) = "base_first"
    /\ Pass(ArmBaseFirst(base_stream, snap_stream))

BasePrefix ==
    /\ pc = "next"
    /\ Arm(base_stream, snap_stream) = "base_prefix"
    /\ Pass(ArmBasePrefix(base_stream, snap_stream))

OverlayInside ==
    /\ pc = "next"
    /\ Arm(base_stream, snap_stream) = "overlay_inside"
    /\ Pass(ArmOverlayInside(base_stream, snap_stream))

SkipCovered ==
    /\ pc = "next"
    /\ Arm(base_stream, snap_stream) = "covered"
    /\ Pass(ArmCovered(base_stream, snap_stream))

DrainBase ==
    /\ pc = "next"
    /\ Arm(base_stream, snap_stream) = "drain_base"
    /\ Pass(ArmDrainBase(base_stream, snap_stream))

DrainSnap ==
    /\ pc = "next"
    /\ Arm(base_stream, snap_stream) = "drain_snap"
    /\ Pass(ArmDrainSnap(base_stream, snap_stream))

ReturnNone ==
    /\ pc = "next"
    /\ Arm(base_stream, snap_stream) = "none"
    /\ Pass(ArmNone(base_stream, snap_stream))

Next ==
    \/ SnapFirst
    \/ BaseFirst
    \/ BasePrefix
    \/ OverlayInside
    \/ SkipCovered
    \/ DrainBase
    \/ DrainSnap
    \/ ReturnNone

Spec == Init /\ [][Next]_vars

\* The caller (the producer's `while let Some(..) = iter.next()?`) keeps
\* calling next() and the loop of next() keeps going round: a pass that can
\* be made is made.
LiveSpec == Init /\ [][Next]_vars /\ WF_vars(Next)

----------------------------------------------------------------------------
\* SpecStream: a MappingStream over one device, driven by a caller that makes
\* any call with any delta in 1..MaxDelta.  emitted collects the ranges
\* returned, skipped the lengths dropped without being returned, call the last
\* call: its name, delta, the stream before it, the value and the Err returned.

InitStream ==
    /\ origin \in Trees(OriginClasses, MaxKey)
    /\ snap = <<>>
    /\ base_stream = NewStream(origin)
    /\ snap_stream = NewStream(snap)
    /\ emitted = <<>>
    /\ pc = "stream"
    /\ opts = [origin |-> 1, snapshot |-> None, rebase |-> FALSE]
    /\ roots = (1 :> 1)
    /\ details = (1 :> DetailOf(1, SumLen(origin)))
    /\ IdleRun
    /\ IdleStream
    /\ IdleIter

\* What a call leaves behind: r is [stream, ret, err], n the length dropped
\* without being returned.
Called(op, delta, r, n) ==
    /\ call' = Some([op |-> op, delta |-> delta, before |-> base_stream,
                     ret |-> r.ret, err |-> IF r.err THEN Some(DeltaError) ELSE None])
    /\ base_stream' = r.stream
    /\ emitted' = IF r.ret # None THEN Append(emitted, r.ret[1]) ELSE emitted
    /\ skipped' = skipped + n
    /\ UNCHANGED <<input_vars, snap_stream, pc, run_vars, mi_vars>>

\* The length of the head (0 without a head).
HeadLen(s) == IF s.current = None THEN 0 ELSE s.current[1].len

StreamConsume ==
    /\ pc = "stream"
    /\ \E delta \in 1..MaxDelta : Called("consume", delta, consume(base_stream, delta), 0)

StreamSkip ==
    /\ pc = "stream"
    /\ \E delta \in 1..MaxDelta :
        LET r == skip(base_stream, delta)
        IN Called("skip", delta, [stream |-> r.stream, ret |-> None, err |-> r.err],
                  IF r.err \/ ~more_mappings(base_stream) THEN 0 ELSE delta)

StreamConsumeAll ==
    /\ pc = "stream"
    /\ Called("consume_all", 0, consume_all(base_stream), 0)

StreamSkipAll ==
    /\ pc = "stream"
    /\ LET r == skip_all(base_stream)
       IN Called("skip_all", 0, [stream |-> r.stream, ret |-> None, err |-> r.err],
                 HeadLen(base_stream))

NextStream ==
    \/ StreamConsume
    \/ StreamSkip
    \/ StreamConsumeAll
    \/ StreamSkipAll

SpecStream == InitStream /\ [][NextStream]_vars

----------------------------------------------------------------------------
\* SpecRun: one run of merge_thins_ on a metadata image that holds the origin
\* (device 1) and the snapshot (device 2).

\* The input: the two trees, whether the devices share one root, whether a
\* snapshot id is given, --rebase, and whether the details' mapped_blocks are
\* the devices' real counts (thin_restore copies them from its input as they
\* are) or one more; and which of the two ids the mapping tree's top level
\* and the details tree hold.
InitRun ==
    \E o \in Trees(OriginClasses, RunKeys), s \in Trees(SnapClasses, RunKeys),
       same \in BOOLEAN, given \in BOOLEAN, rb \in BOOLEAN, stale \in 0..1,
       in_roots \in SUBSET {1, 2}, in_details \in SUBSET {1, 2} :
        /\ (same \/ ~given) => s = <<>>
        /\ ~given => ~same
        /\ origin = o
        /\ snap = IF same THEN o ELSE s
        /\ opts = [origin |-> 1, snapshot |-> IF given THEN Some(2) ELSE None, rebase |-> rb]
        /\ roots = [id \in in_roots |-> IF id = 2 /\ ~same THEN 2 ELSE 1]
        /\ details = [id \in in_details |->
                         DetailOf(id, SumLen(IF id = 1 THEN origin ELSE snap) + stale)]
        /\ base_stream = [current |-> None, iter |-> <<>>]
        /\ snap_stream = [current |-> None, iter |-> <<>>]
        /\ emitted = <<>>
        /\ pc = "run"
        /\ IdleRun
        /\ IdleStream
        /\ IdleIter

\* The tree under a root of the image (the origin's root is 1).
TreeOf(root) == IF root = 1 THEN origin ELSE snap

\* merge_thins_ returning the Err of the origin's lookup (line 408).
CallFailOrigin ==
    /\ c_pc = "call"
    /\ LET o == get_device_root_and_details(opts.origin, roots, details)
       IN /\ o.err # None
          /\ error' = o.err
    /\ c_pc' = "failed"
    /\ UNCHANGED <<input_vars, p_result, sent, stream_vars, mi_vars, iter_vars, pc,
                   path, out_dev, dump_iter, p_pc,
                   ret, runs, chan, tx_open, batch, mapped, mapped_blocks, out_details,
                   ops, rx_open>>

\* merge_thins_ returning the Err of the snapshot's lookup (line 411).
CallFailSnapshot ==
    /\ c_pc = "call"
    /\ opts.snapshot # None
    /\ LET o == get_device_root_and_details(opts.origin, roots, details)
           sn == get_device_root_and_details(opts.snapshot[1], roots, details)
       IN /\ o.err = None
          /\ sn.err # None
          /\ error' = sn.err
    /\ c_pc' = "failed"
    /\ UNCHANGED <<input_vars, p_result, sent, stream_vars, mi_vars, iter_vars, pc,
                   path, out_dev, dump_iter, p_pc,
                   ret, runs, chan, tx_open, batch, mapped, mapped_blocks, out_details,
                   ops, rx_open>>

\* merge_thins_ with a snapshot id whose root differs from the origin's:
\* builds out_dev and calls merge(), which builds the iterator, opens the
\* channel and spawns the producer.
CallMerge ==
    /\ c_pc = "call"
    /\ opts.snapshot # None
    /\ LET o == get_device_root_and_details(opts.origin, roots, details)
           sn == get_device_root_and_details(opts.snapshot[1], roots, details)
           args == MergeArguments(TreeOf(o.root), TreeOf(sn.root), opts.rebase)
           it == NewMergeIterator(args[1], args[2])
       IN /\ o.err = None
          /\ sn.err = None
          /\ ~SameRoot(o.root, sn.root)
          /\ out_dev' = Some(OutputDevice(opts.origin, o.details,
                                          opts.snapshot[1], sn.details, opts.rebase))
          /\ base_stream' = it.base
          /\ snap_stream' = it.snap
    /\ path' = "merge"
    /\ p_pc' = "next"
    /\ tx_open' = TRUE
    /\ c_pc' = "superblock_b"
    /\ rx_open' = TRUE
    /\ UNCHANGED <<input_vars, p_result, sent, stream_vars, mi_vars, error, ops,
                   emitted, pc, dump_iter, ret, runs, chan, batch,
                   mapped, mapped_blocks, out_details>>

\* merge_thins_ with a snapshot id that resolves to the origin's root: the
\* fallback to dump_single_device, with the out_dev already chosen.
CallDumpSameRoot ==
    /\ c_pc = "call"
    /\ opts.snapshot # None
    /\ LET o == get_device_root_and_details(opts.origin, roots, details)
           sn == get_device_root_and_details(opts.snapshot[1], roots, details)
       IN /\ o.err = None
          /\ sn.err = None
          /\ SameRoot(o.root, sn.root)
          /\ out_dev' = Some(OutputDevice(opts.origin, o.details,
                                          opts.snapshot[1], sn.details, opts.rebase))
          /\ dump_iter' = TreeOf(o.root)
    /\ path' = "dump"
    /\ p_pc' = "next"
    /\ tx_open' = TRUE
    /\ c_pc' = "superblock_b"
    /\ rx_open' = TRUE
    /\ UNCHANGED <<input_vars, p_result, sent, stream_vars, mi_vars, error, ops,
                   iter_vars, pc, ret, runs, chan, batch,
                   mapped, mapped_blocks, out_details>>

\* merge_thins_ without a snapshot id: dump_single_device of the origin.
CallDumpOrigin ==
    /\ c_pc = "call"
    /\ opts.snapshot = None
    /\ LET o == get_device_root_and_details(opts.origin, roots, details)
       IN /\ o.err = None
          /\ out_dev' = Some(build_output_device(opts.origin, o.details))
          /\ dump_iter' = TreeOf(o.root)
    /\ path' = "dump"
    /\ p_pc' = "next"
    /\ tx_open' = TRUE
    /\ c_pc' = "superblock_b"
    /\ rx_open' = TRUE
    /\ UNCHANGED <<input_vars, p_result, sent, stream_vars, mi_vars, error, ops,
                   iter_vars, pc, ret, runs, chan, batch,
                   mapped, mapped_blocks, out_details>>

\* Mutant of ChannelFull: a channel without a bound.
ChannelFull_never(q) == FALSE

\* Mutant of ChannelFull: the buffer takes one batch more.
ChannelFull_late(q) == Len(q) > QUEUE_DEPTH

\* sync_channel(QUEUE_DEPTH): the buffer is full.
ChannelFull(q) == Len(q) >= QUEUE_DEPTH

\* Mutant of SendOutcome: a send does not notice that the receiver is gone.
SendOutcome_ignores_receiver(q, rx_alive) == IF ChannelFull(q) THEN "block" ELSE "ok"

\* tx.send(runs): Err once the receiver is dropped, else blocked while the
\* buffer is full, else Ok.
SendOutcome(q, rx_alive) ==
    IF ~rx_alive THEN "err" ELSE IF ChannelFull(q) THEN "block" ELSE "ok"

\* Mutant of Recv: the newest batch queued is taken first.
Recv_newest(q) == [runs |-> q[Len(q)], rest |-> SubSeq(q, 1, Len(q) - 1)]

\* rx.recv() returning Ok: the oldest batch queued, and the queue it leaves.
Recv(q) == [runs |-> Head(q), rest |-> Tail(q)]

\* Mutant of Disconnected: an empty channel is taken for a closed one.
Disconnected_when_empty(q, tx_alive) == q = <<>>

\* Mutant of Disconnected: dropping the sender does not wake the receiver.
Disconnected_never(q, tx_alive) == FALSE

\* rx.recv() returning Err: nothing queued and the sender dropped.
Disconnected(q, tx_alive) == q = <<>> /\ ~tx_alive

\* What the producer thread returns.
ProducerOk == "Ok"
SendError == "sending on a closed channel"
IterError == "error of the iterator"

\* The panic of merger.join().expect(..).expect("metadata contains error").
JoinPanic(cause) == [msg |-> "metadata contains error", cause |-> cause]

\* Mutant of Expect: the producer's Err is discarded.
Expect_ignored(result) == "device_e"

\* The two expects after join(): the consumer goes on if the thread returned
\* Ok(()), and panics on its Err.
Expect(result) == IF result = ProducerOk THEN "device_e" ELSE "panicked"

\* Mutant of AfterLast: the batch is sent at the end whatever it holds.
AfterLast_always == "send_last"

\* Where the producer goes when its iterator returned None.
AfterLast == IF runs # <<>> THEN "send_last" ELSE "drop"

\* Producer of merge(): iter.next()
P_Next ==
    /\ p_pc = "next"
    /\ path = "merge"
    /\ LET r == MergeNext(base_stream, snap_stream)
       IN /\ ~r.err
          /\ base_stream' = r.base
          /\ snap_stream' = r.snap
          /\ ret' = r.ret
          /\ emitted' = IF r.ret # None THEN Append(emitted, r.ret[1]) ELSE emitted
          /\ p_pc' = IF r.ret # None THEN "push" ELSE AfterLast
    /\ UNCHANGED <<input_vars, p_result, sent, stream_vars, mi_vars, error, ops, rx_open,
                   pc, path, out_dev, dump_iter, runs, chan, tx_open, c_pc,
                   batch, mapped, mapped_blocks, out_details>>

\* Producer of dump_single_device(): iter.next_range()
P_NextRange ==
    /\ p_pc = "next"
    /\ path = "dump"
    /\ LET r == next_range(dump_iter)
       IN /\ dump_iter' = r.iter
          /\ ret' = r.ret
          /\ emitted' = IF r.ret # None THEN Append(emitted, r.ret[1]) ELSE emitted
          /\ p_pc' = IF r.ret # None THEN "push" ELSE AfterLast
    /\ UNCHANGED <<input_vars, p_result, sent, stream_vars, mi_vars, error, ops, rx_open,
                   base_stream, snap_stream, pc, path, out_dev, runs, chan,
                   tx_open, c_pc, batch, mapped, mapped_blocks, out_details>>

\* iter.next()? / iter.next_range()? returning the Err of the iterator (a node
\* of the mapping tree that does not decode): the thread ends with that Err,
\* dropping the batch under construction and the sender.
P_IterFail ==
    /\ p_pc = "next"
    /\ runs' = <<>>
    /\ tx_open' = FALSE
    /\ p_pc' = "failed"
    /\ p_result' = Some(IterError)
    /\ UNCHANGED <<input_vars, stream_vars, mi_vars, error, ops, rx_open, sent,
                   iter_vars, pc, path, out_dev, dump_iter, ret, chan,
                   c_pc, batch, mapped, mapped_blocks, out_details>>

\* runs.push(ir::Map {..}); a batch of BUFFER_LEN runs is sent next.
P_Push ==
    /\ p_pc = "push"
    /\ runs' = Append(runs, ToMap(ret[1]))
    /\ ret' = None
    /\ p_pc' = IF Len(runs') = BUFFER_LEN THEN "send" ELSE "next"
    /\ UNCHANGED <<input_vars, p_result, sent, stream_vars, mi_vars, error, ops, rx_open,
                   iter_vars, pc, path, out_dev, dump_iter, chan, tx_open,
                   c_pc, batch, mapped, mapped_blocks, out_details>>

\* tx.send(runs) of a full batch; blocks while QUEUE_DEPTH batches are queued.
P_Send ==
    /\ p_pc = "send"
    /\ SendOutcome(chan, rx_open) = "ok"
    /\ chan' = Append(chan, runs)
    /\ sent' = Append(sent, runs)
    /\ runs' = <<>>
    /\ p_pc' = "next"
    /\ UNCHANGED <<input_vars, p_result, stream_vars, mi_vars, error, ops, rx_open,
                   iter_vars, pc, path, out_dev, dump_iter, ret, tx_open,
                   c_pc, batch, mapped, mapped_blocks, out_details>>

\* tx.send(runs) of the last, non-empty batch.
P_SendLast ==
    /\ p_pc = "send_last"
    /\ SendOutcome(chan, rx_open) = "ok"
    /\ chan' = Append(chan, runs)
    /\ sent' = Append(sent, runs)
    /\ runs' = <<>>
    /\ p_pc' = "drop"
    /\ UNCHANGED <<input_vars, p_result, stream_vars, mi_vars, error, ops, rx_open,
                   iter_vars, pc, path, out_dev, dump_iter, ret, tx_open,
                   c_pc, batch, mapped, mapped_blocks, out_details>>

\* tx.send(runs)? returning Err: the receiver was dropped.  The thread ends,
\* dropping the batch and the sender.
P_SendFail ==
    /\ p_pc \in {"send", "send_last"}
    /\ SendOutcome(chan, rx_open) = "err"
    /\ runs' = <<>>
    /\ tx_open' = FALSE
    /\ p_pc' = "failed"
    /\ p_result' = Some(SendError)
    /\ UNCHANGED <<input_vars, sent, stream_vars, mi_vars, error, ops, rx_open,
                   iter_vars, pc, path, out_dev, dump_iter, ret, chan,
                   c_pc, batch, mapped, mapped_blocks, out_details>>

\* drop(tx); Ok(())
P_Drop ==
    /\ p_pc = "drop"
    /\ tx_open' = FALSE
    /\ p_pc' = "exited"
    /\ p_result' = Some(ProducerOk)
    /\ UNCHANGED <<input_vars, sent, stream_vars, mi_vars, error, ops, rx_open,
                   iter_vars, pc, path, out_dev, dump_iter, ret, runs, chan,
                   c_pc, batch, mapped, mapped_blocks, out_details>>

\* restorer.superblock_b(out_sb)
C_SuperblockB ==
    /\ c_pc = "superblock_b"
    /\ c_pc' = "device_b"
    /\ ops' = Append(ops, "superblock_b")
    /\ UNCHANGED <<input_vars, p_result, sent, stream_vars, mi_vars, error, rx_open,
                   iter_vars, pc, path, out_dev, dump_iter, p_pc, ret, runs,
                   chan, tx_open, batch, mapped, mapped_blocks, out_details>>

\* restorer.device_b(out_dev); let mut mapped_blocks = 0
C_DeviceB ==
    /\ c_pc = "device_b"
    /\ out_details' = out_dev
    /\ mapped_blocks' = 0
    /\ c_pc' = "recv"
    /\ ops' = Append(ops, "device_b")
    /\ UNCHANGED <<input_vars, p_result, sent, stream_vars, mi_vars, error, rx_open,
                   iter_vars, pc, path, out_dev, dump_iter, p_pc, ret, runs,
                   chan, tx_open, batch, mapped>>

\* The calls of the consumer that return a Result propagated with `?`.
FailPoints == {"superblock_b", "device_b", "map", "device_e", "superblock_e", "eof", "patch"}

\* The Err of a restorer call (or of the details patch) of the output.
RestoreError(at) == [msg |-> "restore failed", at |-> at]

\* Mutant of Propagate: the Err of restorer.map is dropped and the consumer
\* goes on to close the device.
Propagate_map_ignored(at) == IF at = "map" THEN "device_e" ELSE "failed"

\* The `?` after each of these calls: the function returns the Err.
Propagate(at) == "failed"

\* A restorer call (or the details patch) returning Err, e.g. for lack of
\* metadata space: merge() / dump_single_device() returns it at once, dropping
\* the receiver and the batch in hand; the producer is not joined.
C_Fail ==
    /\ c_pc \in FailPoints
    /\ error' = Some(RestoreError(c_pc))
    /\ c_pc' = Propagate(c_pc)
    /\ rx_open' = FALSE
    /\ batch' = <<>>
    /\ chan' = <<>>
    /\ UNCHANGED <<input_vars, p_result, sent, stream_vars, mi_vars, iter_vars, pc,
                   path, out_dev, dump_iter, p_pc,
                   ret, runs, tx_open, mapped, mapped_blocks, out_details, ops>>

\* rx.recv() returning Ok(runs); blocks while the channel is empty and open.
C_Recv ==
    /\ c_pc = "recv"
    /\ chan # <<>>
    /\ batch' = Recv(chan).runs
    /\ chan' = Recv(chan).rest
    /\ c_pc' = IF batch' = <<>> THEN "recv" ELSE "map"
    /\ UNCHANGED <<input_vars, p_result, sent, stream_vars, mi_vars, error, ops, rx_open,
                   iter_vars, pc, path, out_dev, dump_iter, p_pc, ret, runs,
                   tx_open, mapped, mapped_blocks, out_details>>

\* restorer.map(run); mapped_blocks += run.len (merge() only)
C_Map ==
    /\ c_pc = "map"
    /\ batch # <<>>
    /\ mapped' = Append(mapped, Head(batch))
    /\ mapped_blocks' = IF path = "merge" THEN mapped_blocks + Head(batch).len
                        ELSE mapped_blocks
    /\ batch' = Tail(batch)
    /\ c_pc' = IF batch' = <<>> THEN "recv" ELSE "map"
    /\ ops' = Append(ops, "map")
    /\ UNCHANGED <<input_vars, p_result, sent, stream_vars, mi_vars, error, rx_open,
                   iter_vars, pc, path, out_dev, dump_iter, p_pc, ret, runs,
                   chan, tx_open, out_details>>

\* rx.recv() returning Err: the channel is empty and the sender dropped.
C_RecvClosed ==
    /\ c_pc = "recv"
    /\ Disconnected(chan, tx_open)
    /\ c_pc' = "join"
    /\ UNCHANGED <<input_vars, p_result, sent, stream_vars, mi_vars, error, ops, rx_open,
                   iter_vars, pc, path, out_dev, dump_iter, p_pc, ret, runs,
                   chan, tx_open, batch, mapped, mapped_blocks, out_details>>

\* merger.join() / dumper.join() of a producer that returned Ok(()); blocks
\* until the thread has ended.
C_Join ==
    /\ c_pc = "join"
    /\ p_result # None
    /\ Expect(p_result[1]) = "device_e"
    /\ c_pc' = "device_e"
    /\ ops' = Append(ops, "join")
    /\ UNCHANGED <<input_vars, p_result, sent, stream_vars, mi_vars, error, rx_open,
                   iter_vars, pc, path, out_dev, dump_iter, p_pc, ret, runs,
                   chan, tx_open, batch, mapped, mapped_blocks, out_details>>

\* join() of a producer that returned Err: .expect("metadata contains error")
\* panics with the producer's Err; the run ends there.
C_JoinPanic ==
    /\ c_pc = "join"
    /\ p_result # None
    /\ Expect(p_result[1]) = "panicked"
    /\ c_pc' = "panicked"
    /\ error' = Some(JoinPanic(p_result[1]))
    /\ ops' = Append(ops, "join")
    /\ rx_open' = FALSE
    /\ UNCHANGED <<input_vars, p_result, sent, stream_vars, mi_vars,
                   iter_vars, pc, path, out_dev, dump_iter, p_pc, ret, runs,
                   chan, tx_open, batch, mapped, mapped_blocks, out_details>>

\* restorer.device_e()
C_DeviceE ==
    /\ c_pc = "device_e"
    /\ c_pc' = "superblock_e"
    /\ ops' = Append(ops, "device_e")
    /\ UNCHANGED <<input_vars, p_result, sent, stream_vars, mi_vars, error, rx_open,
                   iter_vars, pc, path, out_dev, dump_iter, p_pc, ret, runs,
                   chan, tx_open, batch, mapped, mapped_blocks, out_details>>

\* restorer.superblock_e()
C_SuperblockE ==
    /\ c_pc = "superblock_e"
    /\ c_pc' = "eof"
    /\ ops' = Append(ops, "superblock_e")
    /\ UNCHANGED <<input_vars, p_result, sent, stream_vars, mi_vars, error, rx_open,
                   iter_vars, pc, path, out_dev, dump_iter, p_pc, ret, runs,
                   chan, tx_open, batch, mapped, mapped_blocks, out_details>>

\* restorer.eof(); dump_single_device returns Ok here, merge() goes on to
\* patch the details.
C_Eof ==
    /\ c_pc = "eof"
    /\ c_pc' = IF path = "merge" THEN "patch" ELSE "done"
    /\ ops' = Append(ops, "eof")
    /\ rx_open' = (path = "merge")
    /\ UNCHANGED <<input_vars, p_result, sent, stream_vars, mi_vars, error,
                   iter_vars, pc, path, out_dev, dump_iter, p_pc, ret, runs,
                   chan, tx_open, batch, mapped, mapped_blocks, out_details>>

\* update_device_details(engine_out, mapped_blocks); Ok(())
C_Patch ==
    /\ c_pc = "patch"
    /\ out_details' = Some(update_device_details(out_details[1], mapped_blocks))
    /\ c_pc' = "done"
    /\ ops' = Append(ops, "update_device_details")
    /\ rx_open' = FALSE
    /\ UNCHANGED <<input_vars, p_result, sent, stream_vars, mi_vars, error,
                   iter_vars, pc, path, out_dev, dump_iter, p_pc, ret, runs,
                   chan, tx_open, batch, mapped, mapped_blocks>>

NextRun ==
    \/ CallFailOrigin
    \/ CallFailSnapshot
    \/ CallMerge
    \/ CallDumpSameRoot
    \/ CallDumpOrigin
    \/ P_Next
    \/ P_NextRange
    \/ P_IterFail
    \/ P_Push
    \/ P_Send
    \/ P_SendLast
    \/ P_SendFail
    \/ P_Drop
    \/ C_SuperblockB
    \/ C_DeviceB
    \/ C_Fail
    \/ C_Recv
    \/ C_Map
    \/ C_RecvClosed
    \/ C_Join
    \/ C_JoinPanic
    \/ C_DeviceE
    \/ C_SuperblockE
    \/ C_Eof
    \/ C_Patch

SpecRun == InitRun /\ [][NextRun]_vars

----------------------------------------------------------------------------
\* SpecPipe: the runs of merge_thins_ on images whose origin is long enough
\* to fill the channel.  LivePipe: the same under fair scheduling of the two
\* threads.

\* A fragmented device of n ranges of one block: every other key is mapped.
Frag(n) == [i \in 1..n |-> Range(2 * (i - 1), 2 * (i - 1), 0, 1)]

\* A snapshot of one range that overlays the origin's second range.
PipeSnap == <<Range(1, 1, 1, 2)>>

InitPipe ==
    \E n \in {0, PipeLen - 1, PipeLen}, s \in {<<>>, PipeSnap},
       same \in BOOLEAN, given \in BOOLEAN, rb \in BOOLEAN,
       in_roots \in SUBSET {1, 2}, in_details \in SUBSET {1, 2} :
        /\ (same \/ ~given) => s = <<>>
        /\ ~given => ~same
        /\ origin = Frag(n)
        /\ snap = IF same THEN origin ELSE s
        /\ opts = [origin |-> 1, snapshot |-> IF given THEN Some(2) ELSE None, rebase |-> rb]
        /\ roots = [id \in in_roots |-> IF id = 2 /\ ~same THEN 2 ELSE 1]
        /\ details = [id \in in_details |->
                         DetailOf(id, SumLen(IF id = 1 THEN origin ELSE snap))]
        /\ base_stream = [current |-> None, iter |-> <<>>]
        /\ snap_stream = [current |-> None, iter |-> <<>>]
        /\ emitted = <<>>
        /\ pc = "run"
        /\ IdleRun
        /\ IdleStream
        /\ IdleIter

SpecPipe == InitPipe /\ [][NextRun]_vars

\* The steps of the producer thread, and of the thread that runs merge_thins_.
Producer ==
    \/ P_Next
    \/ P_NextRange
    \/ P_IterFail
    \/ P_Push
    \/ P_Send
    \/ P_SendLast
    \/ P_SendFail
    \/ P_Drop

Consumer ==
    \/ CallFailOrigin
    \/ CallFailSnapshot
    \/ CallMerge
    \/ CallDumpSameRoot
    \/ CallDumpOrigin
    \/ C_SuperblockB
    \/ C_DeviceB
    \/ C_Fail
    \/ C_Recv
    \/ C_Map
    \/ C_RecvClosed
    \/ C_Join
    \/ C_JoinPanic
    \/ C_DeviceE
    \/ C_SuperblockE
    \/ C_Eof
    \/ C_Patch

\* Each thread that can take a step is scheduled in the end.
LivePipe == InitPipe /\ [][NextRun]_vars /\ WF_vars(Producer) /\ WF_vars(Consumer)

----------------------------------------------------------------------------
\* Properties of the merge iterator (checked under Spec).

\* C1  Coverage conservation: no key is ever emitted twice or emitted without
\* being mapped by one of the devices, and once next() has returned None the
\* keys covered by the emitted ranges are exactly keys(origin) \cup keys(snap).
CoverageConserved ==
    /\ \A k \in Keys(emitted) : CoverCount(emitted, k) = 1
    /\ Keys(emitted) \subseteq (Keys(origin) \cup Keys(snap))
    /\ pc = "done" => Keys(emitted) = Keys(origin) \cup Keys(snap)

\* C1 witness: a finished merge of two devices that overlap in part, with a
\* split range in the output.
CoverageWitness ==
    /\ pc = "done"
    /\ SplitHappened
    /\ Keys(origin) \cap Keys(snap) # {}
    /\ Keys(origin) \ Keys(snap) # {}
    /\ Keys(snap) \ Keys(origin) # {}

\* C2  Snapshot precedence: every key of every emitted range maps to the
\* snapshot's (block, time) when the snapshot maps the key, else to the
\* origin's; the data offset follows the key inside a range (k0+i -> b0+i).
SnapshotPrecedence ==
    \A i \in DOMAIN emitted :
        \A k \in RangeKeys(emitted[i]) :
            LET v == [block |-> emitted[i].block + (k - emitted[i].thin_begin),
                      time |-> emitted[i].time]
            IN IF k \in Keys(snap) THEN v = MapAt(snap, k)
               ELSE k \in Keys(origin) /\ v = MapAt(origin, k)

\* C2 witness: a finished merge where the devices disagree on a common key and
\* an origin range was split.
PrecedenceWitness ==
    /\ pc = "done"
    /\ Contended
    /\ SplitHappened
    /\ \E i \in DOMAIN emitted : emitted[i].len >= 2

\* C5  Well-formed merged stream: every emitted range has len >= 1, and each
\* range ends at or before the start of the next one (so thin_begin strictly
\* increases).
WellFormedMerged ==
    /\ \A i \in DOMAIN emitted : emitted[i].len >= 1
    /\ \A i \in 1..(Len(emitted) - 1) :
        /\ emitted[i].thin_begin < emitted[i + 1].thin_begin
        /\ emitted[i].thin_begin + emitted[i].len <= emitted[i + 1].thin_begin

\* C5 witness: a finished merge that split a range and emitted three or more.
WellFormedWitness ==
    /\ pc = "done"
    /\ SplitHappened
    /\ Len(emitted) >= 3
    /\ base_stream.current = None /\ snap_stream.current = None

\* C6  Reference-merger equivalence: once next() has returned None, the emitted
\* ranges compacted with push_compact are the list merge_mappings returns for
\* the two devices' mappings, and the sum of the emitted lengths is its
\* mapped_blocks.
ReferenceEquivalence ==
    pc = "done" =>
        LET ref == merge_mappings(CompactAll(ToMaps(origin), <<>>),
                                  CompactAll(ToMaps(snap), <<>>))
        IN /\ CompactAll(ToMaps(emitted), <<>>) = ref.merged
           /\ SumLen(emitted) = ref.mapped_blocks

\* C6 witness: a finished merge with a split range, where compaction joins
\* emitted neighbours.
ReferenceWitness ==
    /\ pc = "done"
    /\ SplitHappened
    /\ Contended
    /\ Len(CompactAll(ToMaps(emitted), <<>>)) < Len(emitted)

\* C7  Identity with an empty side: with an empty snapshot the merged stream
\* is the origin's range stream, range for range; with an empty origin it is
\* the snapshot's.
IdentityWithEmptySide ==
    pc = "done" =>
        /\ snap = <<>> => emitted = origin
        /\ origin = <<>> => emitted = snap

\* C7 witness: a finished merge of a fragmented origin with an empty snapshot.
IdentityWitness ==
    /\ pc = "done"
    /\ snap = <<>>
    /\ Len(origin) >= 2
    /\ \E i \in DOMAIN origin : origin[i].len >= 2

\* C10 as stated: no two consecutive emitted ranges are mergeable.
RunLengthMaximal ==
    \A i \in 1..(Len(emitted) - 1) : ~Mergeable(emitted[i], emitted[i + 1])

\* C10 amended: two consecutive emitted ranges are mergeable only when exactly
\* one of them is a whole range of the snapshot (the other being a range, or a
\* piece of a range, of the origin that shares its data run and time).
MergeableOnlyAcrossDevices ==
    \A i \in 1..(Len(emitted) - 1) :
        Mergeable(emitted[i], emitted[i + 1]) =>
            InList(emitted[i], snap) # InList(emitted[i + 1], snap)

\* C10 witness: a snapshot range that shares the origin's blocks and time
\* splits an origin range; the pieces are mergeable with it on both sides.
MergeableWitness ==
    /\ pc = "done"
    /\ \E i \in 1..(Len(emitted) - 2) :
        /\ Mergeable(emitted[i], emitted[i + 1])
        /\ Mergeable(emitted[i + 1], emitted[i + 2])
        /\ InList(emitted[i + 1], snap)
        /\ ~InList(emitted[i], origin)

----------------------------------------------------------------------------
\* Properties of a run of merge_thins_ (checked under SpecRun).

\* The ranges RangeMergeIterator emits for (base, overlay) until None.
RECURSIVE MergeAll(_, _, _)
MergeAll(bs, ss, acc) ==
    LET r == MergeNext(bs, ss)
    IN IF r.ret = None \/ r.err THEN acc ELSE MergeAll(r.base, r.snap, Append(acc, r.ret[1]))

MergedDone == c_pc = "done" /\ path = "merge"

\* C3 as stated: in rebase mode the origin masks the snapshot, i.e. every key
\* mapped in both devices is emitted with the origin's mapping.
RebaseOriginWins ==
    (MergedDone /\ opts.rebase) =>
        \A k \in Keys(origin) \cap Keys(snap) :
            CoverCount(emitted, k) = 1 /\ MapAt(emitted, k) = MapAt(origin, k)

\* C3 amended: --rebase does not swap base and overlay; in rebase mode too,
\* every key mapped in both devices is emitted with the snapshot's mapping,
\* and a key mapped in one device only with that device's mapping.
RebaseSnapshotWins ==
    (MergedDone /\ opts.rebase) =>
        \A k \in Keys(origin) \cup Keys(snap) :
            /\ CoverCount(emitted, k) = 1
            /\ MapAt(emitted, k) = IF k \in Keys(snap) THEN MapAt(snap, k)
                                   ELSE MapAt(origin, k)

\* C3 witness: a finished rebase merge of devices that disagree on a common
\* key, the origin also holding keys of its own.
RebaseWitness ==
    /\ MergedDone
    /\ opts.rebase
    /\ Contended
    /\ Keys(origin) \ Keys(snap) # {}
    /\ out_details[1].dev_id = opts.snapshot[1]

\* C4  Mapped-blocks accuracy: after a merge that completed, the mapped_blocks
\* of the output's details record is the sum of len over the runs applied with
\* restorer.map, which is the sum of len over the ranges the iterator emitted.
MappedBlocksAccurate ==
    MergedDone =>
        /\ out_details # None
        /\ out_details[1].mapped_blocks = SumLen(mapped)
        /\ SumLen(mapped) = SumLen(emitted)

\* C4 witness: a finished merge whose total differs from the mapped_blocks of
\* both input details, the origin's being off its real count.
MappedBlocksWitness ==
    /\ MergedDone
    /\ Len(mapped) >= 2
    /\ out_details[1].mapped_blocks # details[1].mapped_blocks
    /\ out_details[1].mapped_blocks # details[2].mapped_blocks
    /\ details[1].mapped_blocks # SumLen(origin)

\* C8  Output device identity: with a snapshot id given, the output device has
\* the dev_id, transaction, creation_time and snap_time of the origin, or of
\* the snapshot in rebase mode; a non-rebase merge of an empty origin yields
\* the origin's dev_id with the snapshot's mappings and mapped count.
OutputDeviceIdentity ==
    (c_pc = "done" /\ opts.snapshot # None) =>
        LET id == IF opts.rebase THEN opts.snapshot[1] ELSE opts.origin
            d == out_details[1]
        IN /\ d.dev_id = id
           /\ d.transaction = details[id].transaction_id
           /\ d.creation_time = details[id].creation_time
           /\ d.snap_time = details[id].snapshotted_time
           /\ (path = "merge" /\ ~opts.rebase /\ origin = <<>>) =>
                /\ d.dev_id = opts.origin
                /\ mapped = ToMaps(snap)
                /\ d.mapped_blocks = SumLen(snap)

\* C8 witness: a finished non-rebase merge of an empty origin with a
\* fragmented snapshot.
OutputDeviceWitness ==
    /\ MergedDone
    /\ ~opts.rebase
    /\ origin = <<>>
    /\ Len(snap) >= 2
    /\ out_details[1].mapped_blocks > 0

\* C9 as stated: when both ids resolve to one root, the dump the shortcut
\* produces is what merge() would have produced: the same mappings and the same
\* details record, mapped_blocks included.
SameRootShortcutEquivalent ==
    (c_pc = "done" /\ path = "dump" /\ opts.snapshot # None) =>
        LET it == NewMergeIterator(origin, snap)
            m == MergeAll(it.base, it.snap, <<>>)
        IN /\ mapped = ToMaps(m)
           /\ out_details = Some(update_device_details(out_dev[1], SumLen(m)))

\* A call recorded in ops.
Did(op) == \E i \in DOMAIN ops : ops[i] = op

\* The prefixes of a sequence.
IsPrefix(s, u) == Len(s) <= Len(u) /\ s = SubSeq(u, 1, Len(s))

\* C11  Single-device dump: without a snapshot id the runs applied to the
\* restorer are, in order, the origin's range stream (a prefix of it while the
\* run lasts, all of it at the end), and the output's device record is the
\* origin's id with the fields of the input's detail, mapped_blocks copied as
\* it is and never patched.
SingleDeviceDump ==
    (opts.snapshot = None /\ path # "none") =>
        /\ path = "dump"
        /\ IsPrefix(mapped, ToMaps(origin))
        /\ ~Did("update_device_details")
        /\ c_pc = "done" =>
            /\ mapped = ToMaps(origin)
            /\ out_details # None
            /\ out_details[1].dev_id = opts.origin
            /\ out_details[1].mapped_blocks = details[opts.origin].mapped_blocks
            /\ out_details[1].transaction = details[opts.origin].transaction_id
            /\ out_details[1].creation_time = details[opts.origin].creation_time
            /\ out_details[1].snap_time = details[opts.origin].snapshotted_time

\* C11 witness: a finished dump of a fragmented origin whose detail holds a
\* mapped_blocks that is not the device's real count.
SingleDeviceDumpWitness ==
    /\ c_pc = "done"
    /\ opts.snapshot = None
    /\ Len(origin) >= 2
    /\ Len(mapped) = Len(origin)
    /\ details[opts.origin].mapped_blocks # SumLen(origin)

\* Both lookups of merge_thins_ returned Ok.
Resolved ==
    /\ get_device_root_and_details(opts.origin, roots, details).err = None
    /\ opts.snapshot # None =>
        get_device_root_and_details(opts.snapshot[1], roots, details).err = None

\* The producer's iterator of the other path was never built or advanced.
MergeIteratorUntouched ==
    /\ base_stream = [current |-> None, iter |-> <<>>]
    /\ snap_stream = [current |-> None, iter |-> <<>>]

\* C12  Dispatch: a run whose ids resolve takes the dump when no snapshot id
\* is given or when both ids resolve to one root, and the merge otherwise;
\* the path taken is the only one that runs (the other path's iterator is
\* never built, and only the merge patches the details).
DispatchByRoots ==
    /\ path \in {"none", "dump", "merge"}
    /\ path = "none" <=> (c_pc = "call" \/ ~Resolved)
    /\ path = "dump" =>
        /\ opts.snapshot = None \/ roots[opts.origin] = roots[opts.snapshot[1]]
        /\ MergeIteratorUntouched
        /\ ~Did("update_device_details")
    /\ path = "merge" =>
        /\ opts.snapshot # None
        /\ roots[opts.origin] # roots[opts.snapshot[1]]
        /\ dump_iter = <<>>

\* C12 witness: a finished dump of two ids that share a root, the device
\* being mapped.
DispatchWitness ==
    /\ c_pc = "done"
    /\ path = "dump"
    /\ opts.snapshot # None
    /\ roots[opts.origin] = roots[opts.snapshot[1]]
    /\ mapped # <<>>

\* The ids of the run that one of the two trees does not hold.
MissingIds ==
    {id \in {opts.origin} \cup {opts.snapshot[i] : i \in DOMAIN opts.snapshot} :
        id \notin DOMAIN roots \/ id \notin DOMAIN details}

\* C13 as stated: a run with a missing id fails with "Unable to find mapping
\* tree for the device <id>" naming a missing id, before any restorer call.
MissingIdMappingTreeError ==
    (MissingIds # {} /\ c_pc # "call") =>
        /\ c_pc = "failed"
        /\ error # None
        /\ error[1].msg = NoMappingTree
        /\ error[1].dev_id \in MissingIds
        /\ ops = <<>>

\* C13 amended: a run with a missing id fails before any restorer call and
\* before a producer is spawned; the error names the origin if it is missing,
\* else the snapshot, and says "Unable to find mapping tree for the device"
\* if the mapping tree lacks that id, "Unable to find the details for the
\* device" if only the details tree lacks it.
MissingIdError ==
    (MissingIds # {} /\ c_pc # "call") =>
        LET id == IF opts.origin \in MissingIds THEN opts.origin ELSE opts.snapshot[1]
            msg == IF id \notin DOMAIN roots THEN NoMappingTree ELSE NoDetails
        IN /\ c_pc = "failed"
           /\ error = Some(DeviceError(msg, id))
           /\ ops = <<>>
           /\ mapped = <<>>
           /\ out_details = None
           /\ p_pc = "unborn"

\* C13 witness: a failed run whose snapshot id is in the mapping tree but not
\* in the details tree.
MissingIdWitness ==
    /\ c_pc = "failed"
    /\ opts.snapshot # None
    /\ opts.origin \notin MissingIds
    /\ opts.snapshot[1] \in DOMAIN roots
    /\ opts.snapshot[1] \notin DOMAIN details
    /\ error # None
    /\ error[1].msg = NoDetails

\* C14  Restore failure: once restorer.map or an earlier restorer call has
\* returned Err, the run has failed with that error, and device_e,
\* superblock_e, eof and the details patch are never executed.
RestoreFailureStops ==
    (error # None /\ error[1].msg = RestoreError("map").msg
                  /\ error[1].at \in {"superblock_b", "device_b", "map"}) =>
        /\ c_pc = "failed"
        /\ ~Did("device_e")
        /\ ~Did("superblock_e")
        /\ ~Did("eof")
        /\ ~Did("update_device_details")
        /\ out_details # None => out_details = out_dev

\* C14 witness: restorer.map failed after some runs had been applied, and the
\* producer has since met the dropped receiver.
RestoreFailureWitness ==
    /\ c_pc = "failed"
    /\ error # None
    /\ error[1].msg = RestoreError("map").msg
    /\ error[1].at = "map"
    /\ Len(mapped) >= 1
    /\ Did("device_b")
    /\ p_pc = "failed"

\* C15 as stated: a rebase run whose ids share a root dumps the device under
\* the origin's id.
SameRootRebaseOriginId ==
    (c_pc = "done" /\ opts.snapshot # None /\ opts.rebase
        /\ roots[opts.origin] = roots[opts.snapshot[1]]) =>
        /\ path = "dump"
        /\ out_details[1].dev_id = opts.origin

\* C15 amended: a rebase run whose ids share a root takes the dump path, and
\* the dumped device carries the snapshot's id and the snapshot's detail
\* fields (out_dev is chosen before the roots are compared).
SameRootRebaseSnapshotId ==
    (c_pc = "done" /\ opts.snapshot # None /\ opts.rebase
        /\ roots[opts.origin] = roots[opts.snapshot[1]]) =>
        /\ path = "dump"
        /\ mapped = ToMaps(origin)
        /\ out_details[1].dev_id = opts.snapshot[1]
        /\ out_details[1].dev_id # opts.origin
        /\ out_details[1].transaction = details[opts.snapshot[1]].transaction_id
        /\ out_details[1].creation_time = details[opts.snapshot[1]].creation_time
        /\ out_details[1].snap_time = details[opts.snapshot[1]].snapshotted_time
        /\ out_details[1].mapped_blocks = details[opts.snapshot[1]].mapped_blocks

\* C15 witness: a finished same-root rebase dump of a mapped device.
SameRootRebaseWitness ==
    /\ c_pc = "done"
    /\ path = "dump"
    /\ opts.snapshot # None
    /\ opts.rebase
    /\ roots[opts.origin] = roots[opts.snapshot[1]]
    /\ Len(mapped) >= 2

----------------------------------------------------------------------------
\* Properties of MappingStream (checked under SpecStream).

\* The last call was op, made on a stream with a head.
LastCall(op) == call # None /\ call[1].op = op /\ call[1].before.current # None

\* The head a partial consume or skip of d leaves of the head R.
Advanced(R, d) == Range(R.thin_begin + d, R.block + d, R.time, R.len - d)

\* C16  Partial consume/skip: on a head R = (k, (block, time), l), consume(d)
\* with 1 <= d < l returns (k, (block, time), d) and skip(d) returns nothing,
\* both leaving the head (k+d, (block+d, time), l-d) over the same iterator;
\* with d = l both replace the head with the iterator's next range, consume
\* returning R; consume_all and skip_all do what consume(l) and skip(l) do.
PartialConsumeSkip ==
    \A op \in {"consume", "skip", "consume_all", "skip_all"} :
        LastCall(op) =>
            LET c == call[1]
                R == c.before.current[1]
                d == c.delta
                returns == op \in {"consume", "consume_all"}
            IN /\ (op \in {"consume", "skip"} /\ 1 <= d /\ d < R.len) =>
                    /\ c.err = None
                    /\ c.ret = IF returns THEN Some(Range(R.thin_begin, R.block, R.time, d))
                               ELSE None
                    /\ base_stream.current = Some(Advanced(R, d))
                    /\ base_stream.iter = c.before.iter
               /\ (op \in {"consume_all", "skip_all"} \/ d = R.len) =>
                    /\ c.err = None
                    /\ c.ret = IF returns THEN Some(R) ELSE None
                    /\ base_stream = NewStream(c.before.iter)
               /\ consume_all(c.before) = consume(c.before, R.len)
               /\ skip_all(c.before) = skip(c.before, R.len)

\* C16 witness: a partial skip of a head that is itself what a partial consume
\* left of a range, with ranges left in the iterator.
PartialWitness ==
    /\ LastCall("skip")
    /\ call[1].delta < call[1].before.current[1].len
    /\ ~InList(call[1].before.current[1], origin)
    /\ call[1].before.iter # <<>>
    /\ emitted # <<>>
    /\ ~InList(emitted[Len(emitted)], origin)

\* C17 as stated: consume(d) and skip(d) with d above the head's length return
\* the error "delta too large" and leave the head and the iterator as they were.
DeltaTooLarge ==
    \A op \in {"consume", "skip"} :
        (LastCall(op) /\ call[1].delta > call[1].before.current[1].len) =>
            /\ call[1].err = Some("delta too large")
            /\ base_stream = call[1].before

\* The part of C17 that does not depend on the text: such a call returns an
\* Err and nothing else, and leaves the stream and the caller's totals alone.
DeltaErrorLeavesStream ==
    \A op \in {"consume", "skip"} :
        (LastCall(op) /\ call[1].delta > call[1].before.current[1].len) =>
            /\ call[1].err # None
            /\ call[1].ret = None
            /\ base_stream = call[1].before

\* The length the stream has still to yield.
Remaining(s) == HeadLen(s) + SumLen(s.iter)

\* C18  Coverage contract of MappingStream: at every point the lengths
\* returned by consume and consume_all, plus the lengths skipped, plus the
\* length still in the stream make the mapped blocks of the device; once the
\* stream is drained, returned plus skipped is that total.
StreamCoverage ==
    /\ SumLen(emitted) + skipped + Remaining(base_stream) = SumLen(origin)
    /\ ~more_mappings(base_stream) =>
        /\ base_stream.iter = <<>>
        /\ SumLen(emitted) + skipped = SumLen(origin)

\* C18 witness: a drained stream of a fragmented device, part of it consumed
\* and part skipped, a range having been cut.
StreamCoverageWitness ==
    /\ pc = "stream"
    /\ ~more_mappings(base_stream)
    /\ Len(origin) >= 2
    /\ skipped > 0
    /\ Len(emitted) >= 2
    /\ \E i \in DOMAIN emitted : ~InList(emitted[i], origin)

----------------------------------------------------------------------------
\* Termination and deltas of the merge iterator (checked under LiveSpec, Spec).

\* The total length the two streams have still to yield.
TotalRemaining == Remaining(base_stream) + Remaining(snap_stream)

\* A pass of the loop of next(), or a drain after it, shortens the streams.
ShrinkStep ==
    (pc = "next" /\ Arm(base_stream, snap_stream) # "none") =>
        /\ TotalRemaining' < TotalRemaining
        /\ TotalRemaining' >= 0

Exhausted ==
    /\ pc = "done"
    /\ base_stream = [current |-> None, iter |-> <<>>]
    /\ snap_stream = [current |-> None, iter |-> <<>>]

\* C19  Merge termination: every pass of the loop of next() (and every drain
\* after it) strictly decreases the total remaining length of the two
\* streams, and next() eventually returns None with both streams exhausted.
MergeTerminates == [][ShrinkStep]_vars /\ <>Exhausted

\* C19 witness: a finished merge in which a whole origin range was dropped by
\* the last arm, both devices being fragmented.
TerminationWitness ==
    /\ Exhausted
    /\ Len(origin) >= 2
    /\ Len(snap) >= 2
    /\ \E i \in DOMAIN origin : RangeKeys(origin[i]) \subseteq Keys(snap)
    /\ \E i \in DOMAIN origin : ~(RangeKeys(origin[i]) \subseteq Keys(snap))

\* C20  No delta error in the merge: next() never fails; whenever both streams
\* have a head, both heads have len >= 1, the delta of the third arm and the
\* delta skipped in the fourth are at least 1 and strictly less than the base
\* head's length, and the fourth arm consumes the whole overlay head.
DeltaWithinHead ==
    /\ pc # "failed"
    /\ ~IterStep(base_stream, snap_stream).err
    /\ InLoop(base_stream, snap_stream) =>
        LET base_map == base_stream.current[1]
            snap_map == snap_stream.current[1]
            arm == Arm(base_stream, snap_stream)
        IN /\ base_map.len >= 1
           /\ snap_map.len >= 1
           /\ arm = "base_prefix" =>
                /\ 1 <= TailDelta(base_map, snap_map)
                /\ TailDelta(base_map, snap_map) < base_map.len
           /\ arm = "overlay_inside" =>
                /\ 1 <= Intersected(base_map, snap_map)
                /\ Intersected(base_map, snap_map) < base_map.len
                /\ ArmOverlayInside(base_stream, snap_stream).ret = Some(snap_map)

\* C20 witness: the fourth arm is about to skip two or more blocks of a base
\* head that the third arm has cut.
DeltaWitness ==
    /\ pc = "next"
    /\ Arm(base_stream, snap_stream) = "overlay_inside"
    /\ Intersected(base_stream.current[1], snap_stream.current[1]) >= 2
    /\ ~InList(base_stream.current[1], origin)
    /\ emitted # <<>>

----------------------------------------------------------------------------
\* Properties of the producer/consumer pipeline (checked under SpecPipe and
\* LivePipe).

\* The runs of a sequence of batches, in order.
RECURSIVE Flatten(_)
Flatten(batches) == IF batches = <<>> THEN <<>> ELSE Head(batches) \o Flatten(Tail(batches))

\* C21  FIFO delivery: the runs the consumer has applied, then the rest of the
\* batch in its hands, then the queued batches, are the runs the producer
\* sent, in order; what the producer sent, holds in its batch and has just
\* been handed by the iterator is what the iterator emitted, in order.  So a
\* run that completes has applied exactly the emitted sequence, each range
\* once, and the applied thin_begin strictly increases.
FifoDelivery ==
    /\ c_pc \notin {"failed", "panicked"} => mapped \o batch \o Flatten(chan) = Flatten(sent)
    /\ IsPrefix(mapped, Flatten(sent))
    /\ p_pc # "failed" => Flatten(sent) \o runs \o ToMaps(ret) = ToMaps(emitted)
    /\ c_pc = "done" => mapped = ToMaps(emitted)
    /\ \A i \in 1..(Len(mapped) - 1) : mapped[i].thin_begin < mapped[i + 1].thin_begin

\* C21 witness: a finished merge that took more batches than the channel
\* holds.
FifoWitness ==
    /\ c_pc = "done"
    /\ path = "merge"
    /\ Len(sent) > QUEUE_DEPTH + 1
    /\ Len(mapped) >= PipeLen
    /\ \E i \in DOMAIN mapped : mapped[i].time = 1

\* C22  Bounded queue: the channel never holds more than QUEUE_DEPTH batches;
\* a send with QUEUE_DEPTH batches queued (and the receiver alive) leaves the
\* producer no step to take, and goes through once a batch has been taken; a
\* recv on an empty channel whose sender is alive leaves the consumer no step
\* to take, and returns once a batch is queued or the sender dropped.
BoundedQueue ==
    /\ Len(chan) <= QUEUE_DEPTH
    /\ (p_pc \in {"send", "send_last"} /\ rx_open) =>
        IF Len(chan) = QUEUE_DEPTH THEN ~ENABLED Producer
        ELSE ENABLED (P_Send \/ P_SendLast)
    /\ c_pc = "recv" =>
        IF chan = <<>> /\ tx_open THEN ~ENABLED Consumer
        ELSE ENABLED (C_Recv \/ C_RecvClosed)

\* C22 witness: the producer holds a full batch in front of a full channel
\* while the consumer is applying a batch.
BoundedQueueWitness ==
    /\ p_pc = "send"
    /\ Len(chan) = QUEUE_DEPTH
    /\ rx_open
    /\ c_pc = "map"
    /\ ~ENABLED Producer

\* The range records between the iterator and the restorer: the one just
\* returned by the iterator, the producer's batch (under construction or in
\* a send), the queued batches, and what is left of the consumer's batch.
InFlight == Len(ret) + Len(runs) + Len(Flatten(chan)) + Len(batch)

\* C23 as stated: at most QUEUE_DEPTH * BUFFER_LEN records are in flight.
PeakBufferingAsStated == InFlight <= QUEUE_DEPTH * BUFFER_LEN

\* C23 amended: at most (QUEUE_DEPTH + 2) * BUFFER_LEN records are in flight:
\* the queue's QUEUE_DEPTH batches, one batch on the producer's side and one
\* on the consumer's; each of the parts keeps to its own bound.
PeakBuffering ==
    /\ InFlight <= (QUEUE_DEPTH + 2) * BUFFER_LEN
    /\ Len(ret) + Len(runs) <= BUFFER_LEN
    /\ Len(Flatten(chan)) <= QUEUE_DEPTH * BUFFER_LEN
    /\ Len(batch) <= BUFFER_LEN

\* C23 witness: a full batch waits in a send, the channel is full and the
\* consumer has just received a full batch.
PeakBufferingWitness ==
    /\ InFlight = (QUEUE_DEPTH + 2) * BUFFER_LEN
    /\ p_pc = "send"
    /\ c_pc = "map"
    /\ Len(origin) > InFlight

\* The producer's iterator has returned None.
IteratorExhausted ==
    /\ p_pc \in {"send_last", "drop", "exited"}
    /\ path = "merge" => ~more_mappings(base_stream) /\ ~more_mappings(snap_stream)
    /\ path = "dump" => dump_iter = <<>>

\* C24  Batch flushing: a send is made with BUFFER_LEN runs in the batch, or
\* with a non-empty batch once the iterator is exhausted, and a batch of
\* BUFFER_LEN runs is sent before anything else is pushed; so every batch
\* sent holds between 1 and BUFFER_LEN runs, only the last one of a run can
\* hold fewer than BUFFER_LEN, and a producer that returned Ok dropped the
\* sender after having sent everything the iterator emitted.
BatchFlushing ==
    /\ p_pc = "send" <=> Len(runs) = BUFFER_LEN
    /\ p_pc = "send_last" => runs # <<>> /\ IteratorExhausted
    /\ Len(runs) <= BUFFER_LEN
    /\ \A i \in DOMAIN sent : 1 <= Len(sent[i]) /\ Len(sent[i]) <= BUFFER_LEN
    /\ \A i \in 1..(Len(sent) - 1) : Len(sent[i]) = BUFFER_LEN
    /\ (sent # <<>> /\ Len(sent[Len(sent)]) < BUFFER_LEN) => IteratorExhausted
    /\ p_pc \in {"drop", "exited"} => runs = <<>> /\ Flatten(sent) = ToMaps(emitted)
    /\ (p_pc \in {"next", "push", "send", "send_last", "drop"}) => tx_open
    /\ p_result = Some(ProducerOk) => ~tx_open /\ p_pc = "exited"

\* C24 witness: a producer that returned Ok after full batches and a short
\* last one.
BatchFlushingWitness ==
    /\ p_result = Some(ProducerOk)
    /\ Len(sent) >= 3
    /\ Len(sent[Len(sent)]) < BUFFER_LEN
    /\ Len(sent[1]) = BUFFER_LEN

\* C25  Producer error: once the iterator has failed in the producer the
\* sender is dropped and the run never completes as a success; the producer
\* is joined only after the consumer has applied every batch that was sent,
\* and the join ends the run with a panic that carries the producer's error
\* (nothing of device_e, superblock_e, eof or the patch is executed).
ProducerErrorSurfaces ==
    p_result = Some(IterError) =>
        /\ ~tx_open
        /\ c_pc # "done"
        /\ ~Did("device_e") /\ ~Did("superblock_e") /\ ~Did("eof")
        /\ ~Did("update_device_details")
        /\ Did("join") =>
            /\ c_pc = "panicked"
            /\ chan = <<>> /\ batch = <<>>
            /\ mapped = Flatten(sent)
            /\ error = Some(JoinPanic(IterError))

\* C25 witness: the run panicked in the join after the consumer had applied
\* the batches sent before the iterator failed; the ranges of the producer's
\* unsent batch are lost.
ProducerErrorWitness ==
    /\ c_pc = "panicked"
    /\ p_result = Some(IterError)
    /\ Len(sent) >= 2
    /\ mapped = Flatten(sent)
    /\ Len(emitted) > Len(mapped)

\* No send is accepted once the receiver is dropped.
NoSendAfterDrop == ~rx_open => sent' = sent

\* The producer thread has ended.
ProducerEnded == p_pc \in {"exited", "failed"}

\* C26  Consumer error: once the consumer has failed and dropped the
\* receiver, no send of the producer succeeds, and the producer ends (on the
\* Err of its next send, or on the end of its iterator) instead of producing
\* on or staying blocked in a send.
ConsumerErrorStopsProducer ==
    /\ [][NoSendAfterDrop]_vars
    /\ (c_pc = "failed" /\ path # "none") ~> ProducerEnded

\* C26 witness: the consumer failed before its first recv while the producer
\* had filled the channel; the producer's send of the next full batch failed.
ConsumerErrorWitness ==
    /\ c_pc = "failed"
    /\ error # None
    /\ error[1] = RestoreError("device_b")
    /\ Len(sent) = QUEUE_DEPTH
    /\ p_pc = "failed"
    /\ p_result = Some(SendError)

\* A send or a recv failed because the other thread had died.
ChannelFailure ==
    \/ p_result = Some(SendError)
    \/ p_result = Some(IterError) /\ c_pc = "panicked"

\* C27 as stated: when a send or a recv has failed because the peer died and
\* the run has returned, the producer thread was joined, and the error
\* reported is the cause of the failure.
BothJoinedOnChannelFailure ==
    (ChannelFailure /\ c_pc \in {"failed", "panicked"}) =>
        /\ Did("join")
        /\ error # None
        /\ error[1] \in {JoinPanic(IterError)}
                        \cup {RestoreError(at) : at \in FailPoints}

\* The part of C27 that holds: a run that ended on a failure reports its
\* cause, the restorer's Err or the producer's Err.
CauseReported ==
    (c_pc \in {"failed", "panicked"} /\ path # "none") =>
        /\ error # None
        /\ c_pc = "panicked" => error[1] = JoinPanic(p_result[1]) /\ Did("join")
        /\ c_pc = "failed" => error[1] \in {RestoreError(at) : at \in FailPoints}

\* Both threads have ended.
Terminal ==
    /\ c_pc \in {"done", "failed", "panicked"}
    /\ p_pc \in {"unborn", "exited", "failed"}

\* C28  No deadlock: under fair scheduling of the two threads every run ends,
\* in success or in failure, with both threads ended; in particular no
\* thread stays in a send or in a recv for ever.
NoDeadlock ==
    /\ <>[]Terminal
    /\ (p_pc \in {"send", "send_last"}) ~> ProducerEnded \/ p_pc \in {"next", "drop"}
    /\ (c_pc = "recv") ~> (c_pc # "recv")

\* C28 witness: a run ended by a failed iterator after the producer had sent
\* more batches than the channel holds: the producer was held up by the full
\* queue and the consumer released from its recv by the drop of the sender.
NoDeadlockWitness ==
    /\ Terminal
    /\ c_pc = "panicked"
    /\ Len(sent) > QUEUE_DEPTH + 1

\* The steps of the consumer, in the order of the code.
Phase(op) ==
    CASE op = "superblock_b" -> 1
      [] op = "device_b" -> 2
      [] op = "map" -> 3
      [] op = "join" -> 4
      [] op = "device_e" -> 5
      [] op = "superblock_e" -> 6
      [] op = "eof" -> 7
      [] op = "update_device_details" -> 8

\* Step b can come right after step a.
Follows(a, b) ==
    \/ Phase(b) = Phase(a) + 1
    \/ a = "map" /\ b = "map"
    \/ a = "device_b" /\ b = "join"

\* C29  Restore call order: the consumer's calls come in the order
\* superblock_b, device_b, map (any number), join, device_e, superblock_e,
\* eof, update_device_details; device_e comes only with the channel closed
\* and drained and the producer joined; a merge that completed made exactly
\* these calls, with one map for every range emitted.
RestoreCallOrder ==
    /\ ops # <<>> => ops[1] = "superblock_b"
    /\ \A i \in 1..(Len(ops) - 1) : Follows(ops[i], ops[i + 1])
    /\ Did("device_e") =>
        /\ ~tx_open /\ chan = <<>> /\ batch = <<>>
        /\ p_pc = "exited"
        /\ Did("join")
        /\ mapped = ToMaps(emitted)
    /\ MergedDone =>
        /\ Len(ops) = Len(emitted) + 7
        /\ ops[Len(ops)] = "update_device_details"
        /\ ops[Len(ops) - 1] = "eof"

\* C29 witness: a completed merge of a long stream.
RestoreCallOrderWitness ==
    /\ MergedDone
    /\ Len(emitted) >= PipeLen
    /\ Len(ops) = PipeLen + 7

----------------------------------------------------------------------------
\* SpecWide: the merge iterator and the consumer's accumulator on words of
\* WordBits bits, with devices that reach the last key.  The code adds with
\* `+` and `+=`: a sum that does not fit the word panics in a build with
\* overflow checks and wraps in a build without them, so a step that carries
\* has both outcomes.

Modulus == 2 ^ WordBits

\* a + b does not fit the word.
Carry(a, b) == a + b >= Modulus

\* The value of a + b, a - b in a build without overflow checks.
wrapping_add(a, b) == (a + b) % Modulus

wrapping_sub(a, b) == (a + Modulus - b) % Modulus

\* left.0 + left.2
WideEnd(r) == wrapping_add(r.thin_begin, r.len)

EndCarry(r) == Carry(r.thin_begin, r.len)

\* The predicates of the range classification on words.
WideEndsBeforeStarted(left, right) == WideEnd(left) <= right.thin_begin

WideOverlaysHead(base, overlay) == WideEnd(overlay) < WideEnd(base)

WideOverlaysAll(base, overlay) == WideEnd(base) <= WideEnd(overlay)

\* The Less arm of consume and skip on words: *key += delta; bt.block += delta;
\* *len -= delta.
WideAdvance(s, delta) ==
    LET c == s.current[1]
    IN [s EXCEPT !.current = Some(Range(wrapping_add(c.thin_begin, delta),
                                        wrapping_add(c.block, delta),
                                        c.time,
                                        c.len - delta))]

AdvanceCarry(s, delta) ==
    /\ s.current # None
    /\ delta < s.current[1].len
    /\ Carry(s.current[1].thin_begin, delta) \/ Carry(s.current[1].block, delta)

WideConsume(s, delta) ==
    IF s.current = None THEN [stream |-> s, ret |-> None, err |-> FALSE]
    ELSE IF delta > s.current[1].len THEN [stream |-> s, ret |-> None, err |-> TRUE]
    ELSE IF delta = s.current[1].len THEN consume_equal(s)
    ELSE [stream |-> WideAdvance(s, delta),
          ret |-> Some([s.current[1] EXCEPT !.len = delta]),
          err |-> FALSE]

WideSkip(s, delta) ==
    IF s.current = None THEN [stream |-> s, err |-> FALSE]
    ELSE IF delta > s.current[1].len THEN [stream |-> s, err |-> TRUE]
    ELSE IF delta = s.current[1].len THEN skip_all(s)
    ELSE [stream |-> WideAdvance(s, delta), err |-> FALSE]

\* Which arm next() takes on words.
WideArm(bs, ss) ==
    IF InLoop(bs, ss)
    THEN LET base_map == bs.current[1]
             snap_map == ss.current[1]
         IN IF WideEndsBeforeStarted(snap_map, base_map) THEN "snap_first"
            ELSE IF WideEndsBeforeStarted(base_map, snap_map) THEN "base_first"
            ELSE IF overlays_tail(base_map, snap_map) THEN "base_prefix"
            ELSE IF WideOverlaysHead(base_map, snap_map) THEN "overlay_inside"
            ELSE "covered"
    ELSE IF more_mappings(bs) THEN "drain_base"
    ELSE IF more_mappings(ss) THEN "drain_snap"
    ELSE "none"

WideTailDelta(base_map, snap_map) ==
    wrapping_sub(snap_map.thin_begin, base_map.thin_begin)

WideIntersected(base_map, snap_map) ==
    wrapping_sub(WideEnd(snap_map), base_map.thin_begin)

\* The inner loop of the last arm on words.
RECURSIVE WideSkipCoveredLoop(_, _)
WideSkipCoveredLoop(bs, snap_map) ==
    IF WideOverlaysAll(bs.current[1], snap_map)
    THEN LET b2 == skip_all(bs).stream
         IN IF ~more_mappings(b2) THEN b2 ELSE WideSkipCoveredLoop(b2, snap_map)
    ELSE bs

\* A base head the inner loop examines has an end that does not fit.
RECURSIVE CoveredCarry(_, _)
CoveredCarry(bs, snap_map) ==
    IF EndCarry(bs.current[1]) THEN TRUE
    ELSE IF WideOverlaysAll(bs.current[1], snap_map)
    THEN LET b2 == skip_all(bs).stream
         IN IF ~more_mappings(b2) THEN FALSE ELSE CoveredCarry(b2, snap_map)
    ELSE FALSE

\* One pass of the loop of next() on words, every sum wrapped.
WideStep(bs, ss) ==
    LET a == WideArm(bs, ss)
    IN CASE a = "snap_first" -> ArmSnapFirst(bs, ss)
         [] a = "base_first" -> ArmBaseFirst(bs, ss)
         [] a = "base_prefix" ->
                LET r == WideConsume(bs, WideTailDelta(bs.current[1], ss.current[1]))
                IN Returned(r.stream, ss, r)
         [] a = "overlay_inside" ->
                LET sk == WideSkip(bs, WideIntersected(bs.current[1], ss.current[1]))
                IN IF sk.err
                   THEN [base |-> sk.stream, snap |-> ss, ret |-> None,
                         returns |-> TRUE, err |-> TRUE]
                   ELSE LET r == WideConsume(ss, ss.current[1].len)
                        IN Returned(sk.stream, r.stream, r)
         [] a = "covered" ->
                [base |-> WideSkipCoveredLoop(bs, ss.current[1]), snap |-> ss,
                 ret |-> None, returns |-> FALSE, err |-> FALSE]
         [] a = "drain_base" -> ArmDrainBase(bs, ss)
         [] a = "drain_snap" -> ArmDrainSnap(bs, ss)
         [] OTHER -> ArmNone(bs, ss)

\* A sum the pass evaluates does not fit the word: the sums of the
\* classification in the order of the if-chain, then those of the arm taken.
StepCarry(bs, ss) ==
    /\ InLoop(bs, ss)
    /\ LET base_map == bs.current[1]
           snap_map == ss.current[1]
           a == WideArm(bs, ss)
       IN IF EndCarry(snap_map) THEN TRUE
          ELSE IF a = "snap_first" THEN FALSE
          ELSE IF EndCarry(base_map) THEN TRUE
          ELSE IF a = "base_prefix"
               THEN AdvanceCarry(bs, WideTailDelta(base_map, snap_map))
          ELSE IF a = "overlay_inside"
               THEN AdvanceCarry(bs, WideIntersected(base_map, snap_map))
          ELSE IF a = "covered" THEN CoveredCarry(bs, snap_map)
          ELSE FALSE

\* The runs of a device of SpecWide: key k maps to block k, a run starts
\* among the first two or the last three keys of the word and ends at the
\* last key of the word at most.
WideRuns(t) ==
    {Range(k, k, t, l) : k \in (0..1) \cup ((Modulus - 3)..(Modulus - 1)),
                         l \in 1..(Modulus - 1)}

WideDevices(t) ==
    LET R == {r \in WideRuns(t) : r.thin_begin + r.len <= Modulus}
    IN {<<>>} \cup {<<r>> : r \in R}
              \cup {d \in {<<r, q>> : r \in R, q \in R} :
                        d[1].thin_begin + d[1].len < d[2].thin_begin}

InitWide ==
    /\ origin \in WideDevices(0)
    /\ snap \in WideDevices(1)
    /\ base_stream = NewMergeIterator(origin, snap).base
    /\ snap_stream = NewMergeIterator(origin, snap).snap
    /\ emitted = <<>>
    /\ pc = "next"
    /\ opts = [origin |-> 1, snapshot |-> Some(2), rebase |-> FALSE]
    /\ roots = (1 :> 1) @@ (2 :> 2)
    /\ details = (1 :> DetailOf(1, SumLen(origin))) @@ (2 :> DetailOf(2, SumLen(snap)))
    /\ IdleRun
    /\ IdleStream
    /\ IdleIter

\* A pass of next() none of whose sums carries.
WidePass ==
    /\ pc = "next"
    /\ ~StepCarry(base_stream, snap_stream)
    /\ Pass(WideStep(base_stream, snap_stream))

\* A pass with a sum that carries, in a build without overflow checks.
WidePassWrap ==
    /\ pc = "next"
    /\ StepCarry(base_stream, snap_stream)
    /\ Pass(WideStep(base_stream, snap_stream))

\* A pass with a sum that carries, in a build with overflow checks.
WidePassPanic ==
    /\ pc = "next"
    /\ StepCarry(base_stream, snap_stream)
    /\ pc' = "panicked"
    /\ UNCHANGED <<input_vars, iter_vars, run_vars, stream_vars, mi_vars>>

\* The range the consumer applies next.
Pending == emitted[Len(mapped) + 1]

\* restorer.map(run)?; mapped_blocks += run.len
Accumulate(sum) ==
    /\ mapped' = Append(mapped, ToMap(Pending))
    /\ mapped_blocks' = sum
    /\ UNCHANGED <<input_vars, iter_vars, pc, stream_vars, mi_vars, path, out_dev, dump_iter,
                   p_pc, ret, runs, chan, tx_open, c_pc, batch, out_details, error,
                   ops, rx_open, p_result, sent>>

WideMap ==
    /\ pc \in {"next", "done"}
    /\ Len(mapped) < Len(emitted)
    /\ ~Carry(mapped_blocks, Pending.len)
    /\ Accumulate(mapped_blocks + Pending.len)

WideMapWrap ==
    /\ pc \in {"next", "done"}
    /\ Len(mapped) < Len(emitted)
    /\ Carry(mapped_blocks, Pending.len)
    /\ Accumulate(wrapping_add(mapped_blocks, Pending.len))

WideMapPanic ==
    /\ pc \in {"next", "done"}
    /\ Len(mapped) < Len(emitted)
    /\ Carry(mapped_blocks, Pending.len)
    /\ pc' = "panicked"
    /\ UNCHANGED <<input_vars, iter_vars, run_vars, stream_vars, mi_vars>>

NextWide ==
    \/ WidePass
    \/ WidePassWrap
    \/ WidePassPanic
    \/ WideMap
    \/ WideMapWrap
    \/ WideMapPanic

SpecWide == InitWide /\ [][NextWide]_vars

\* The step taken is a pass of next() one of whose sums carries.
PassCarries ==
    /\ pc = "next"
    /\ StepCarry(base_stream, snap_stream)
    /\ <<base_stream, snap_stream, pc>>' # <<base_stream, snap_stream, pc>>

\* The step taken is an accumulation into mapped_blocks that carries.
MapCarries ==
    /\ Len(mapped) < Len(emitted)
    /\ Carry(mapped_blocks, Pending.len)
    /\ <<mapped, pc>>' # <<mapped, pc>>
    /\ UNCHANGED <<base_stream, snap_stream>>

\* C30 as stated: a sum of the merge state machine, of the cursor or of the
\* mapped_blocks accumulation that does not fit the word makes the run fail;
\* it never wraps.
OverflowFails == [][(PassCarries \/ MapCarries) => pc' = "panicked"]_vars

\* The part of C30 that holds of every build: sums that fit are exact, and a
\* run none of whose sums carried has accumulated the exact number of blocks.
ExactWithoutCarry ==
    (pc = "done" /\ Len(mapped) = Len(emitted) /\ SumLen(emitted) < Modulus
     /\ (\A i \in 1..Len(origin) : ~EndCarry(origin[i]))
     /\ (\A j \in 1..Len(snap) : ~EndCarry(snap[j])))
        => /\ mapped_blocks = SumLen(emitted)
           /\ emitted = MergeAll(NewStream(origin), NewStream(snap), <<>>)

----------------------------------------------------------------------------
\* MappingIterator (src/src/mapping_iterator.rs).  The iterator is the record
\* of the struct's fields; indices are 0-based as in the code, sequences
\* 1-based.

Min(a, b) == IF a <= b THEN a ELSE b

\* &s[a..b]
Slice(s, a, b) == SubSeq(s, a + 1, b)

\* engine.read_many(blocks): the blocks at the locations asked for.
read_blocks(eng, blocks) ==
    [i \in 1..Len(blocks) |-> [loc |-> blocks[i], data |-> eng[blocks[i]]]]

\* unpack_node::<BlockTime> of a leaf block: Node::Leaf {header, keys, values}.
unpack_node(b) ==
    [header |-> [block |-> b.loc, nr_entries |-> Len(b.data)],
     keys |-> [i \in 1..Len(b.data) |-> b.data[i].key],
     values |-> [i \in 1..Len(b.data) |->
                    [block |-> b.data[i].block, time |-> b.data[i].time]]]

get_nr_entries(node) == node.header.nr_entries

\* MappingIterator::new; the second field is the read_many call it made.
new(eng, lv, bs) ==
    LET len == Min(bs, Len(lv))
        cl == read_blocks(eng, Slice(lv, 0, len))
        nd == unpack_node(cl[1])
    IN [it |-> [leaves |-> lv, batch_size |-> bs, cached_leaves |-> cl,
                node |-> nd, nr_entries |-> get_nr_entries(nd), pos |-> <<0, 0>>],
        read |-> Some([first |-> 0, blocks |-> Slice(lv, 0, len)])]

\* keys[self.pos[1]] would panic: the index is not below keys.len().
GetPanics(it) ==
    /\ it.pos[1] < Len(it.leaves)
    /\ it.node.keys # <<>>
    /\ it.pos[2] >= Len(it.node.keys)

\* What stands for the entry of a get() that panicked.
OutOfBounds == [key |-> -1, block |-> -1, time |-> -1]
\* Mutant of get: the entry index is ignored (keys[0], values[0]).
get_first(it) ==
    IF it.pos[1] < Len(it.leaves)
    THEN IF it.node.keys = <<>> THEN None
         ELSE Some([key |-> it.node.keys[1],
                    block |-> it.node.values[1].block,
                    time |-> it.node.values[1].time])
    ELSE None

get(it) ==
    IF it.pos[1] < Len(it.leaves)
    THEN IF it.node.keys = <<>> THEN None
         ELSE IF GetPanics(it) THEN Some(OutOfBounds)
         ELSE Some([key |-> it.node.keys[it.pos[2] + 1],
                    block |-> it.node.values[it.pos[2] + 1].block,
                    time |-> it.node.values[it.pos[2] + 1].time])
    ELSE None
\* Mutant of inc_pos: the leaf is left one entry late (> for >=).
inc_pos_late(it) ==
    IF it.pos[1] < Len(it.leaves)
    THEN [it |-> [it EXCEPT !.pos[2] = @ + 1], ret |-> it.pos[2] + 1 > it.nr_entries]
    ELSE [it |-> it, ret |-> FALSE]

inc_pos(it) ==
    IF it.pos[1] < Len(it.leaves)
    THEN [it |-> [it EXCEPT !.pos[2] = @ + 1], ret |-> it.pos[2] + 1 >= it.nr_entries]
    ELSE [it |-> it, ret |-> FALSE]
\* Mutant of BatchIndex: the entry index is taken for the leaf index.
BatchIndex_of_entry(it) == it.pos[2] % it.batch_size

\* let idx = self.pos[0] % self.batch_size
BatchIndex(it) == it.pos[1] % it.batch_size

\* let endpos = min(self.pos[0] + self.batch_size, self.leaves.len())
EndPos(it) == Min(it.pos[1] + it.batch_size, Len(it.leaves))

\* next_node returning Ok: [it, read], read the read_many call made, if any.
next_node(it, eng) ==
    LET a == [it EXCEPT !.pos = <<it.pos[1] + 1, 0>>]
    IN IF a.pos[1] = Len(a.leaves) THEN [it |-> a, read |-> None]
       ELSE LET idx == BatchIndex(a)
                blocks == Slice(a.leaves, a.pos[1], EndPos(a))
                b == IF idx = 0
                     THEN [a EXCEPT !.cached_leaves = read_blocks(eng, blocks)]
                     ELSE a
                nd == unpack_node(b.cached_leaves[idx + 1])
            IN [it |-> [b EXCEPT !.node = nd, !.nr_entries = get_nr_entries(nd)],
                read |-> IF idx = 0
                         THEN Some([first |-> a.pos[1], blocks |-> blocks])
                         ELSE None]

\* next_node returning the Err of read_blocks or of unpack_node: the position
\* is advanced, the node is not replaced.
next_node_err(it) == [it EXCEPT !.pos = <<it.pos[1] + 1, 0>>]

\* MappingIterator::step returning Ok.
step(it, eng) ==
    LET i == inc_pos(it)
    IN IF i.ret THEN next_node(i.it, eng) ELSE [it |-> i.it, read |-> None]

\* A step on the iterator and the log of its reads.
StepLogged(st, eng) ==
    LET r == step(st.it, eng) IN [it |-> r.it, reads |-> st.reads \o r.read]

\* next_range: leaves without entries are passed over.
RECURSIVE SkipEmptyLeaves(_, _)
SkipEmptyLeaves(st, eng) ==
    IF get(st.it) = None /\ st.it.pos[1] < Len(st.it.leaves)
    THEN SkipEmptyLeaves(StepLogged(st, eng), eng)
    ELSE st

\* next_range: the run that starts at e0 is extended while the next entry
\* continues it in key and in block, with the same time.
RECURSIVE ExtendRun(_, _, _, _)
ExtendRun(st, eng, e0, len) ==
    LET s == SkipEmptyLeaves(st, eng)
        g == get(s.it)
    IN IF g # None /\ g[1].key = e0.key + len /\ g[1].block = e0.block + len
          /\ g[1].time = e0.time
       THEN ExtendRun(StepLogged(s, eng), eng, e0, len + 1)
       ELSE [st |-> s, len |-> len]

\* MappingIterator::next_range on the iterator itself: [it, reads, ret].
next_range_of(it, eng) ==
    LET s == SkipEmptyLeaves([it |-> it, reads |-> <<>>], eng)
        g == get(s.it)
    IN IF g = None THEN [it |-> s.it, reads |-> s.reads, ret |-> None]
       ELSE LET r == ExtendRun(StepLogged(s, eng), eng, g[1], 1)
            IN [it |-> r.st.it, reads |-> r.st.reads,
                ret |-> Some(Range(g[1].key, g[1].block, g[1].time, r.len))]

----------------------------------------------------------------------------
\* SpecIter: a MappingIterator over the leaves of one device, driven either
\* by step() calls (pc = "step") or by next_range() calls (pc = "next_range").

\* The numbers of entries of the leaves: how m entries lie in 1..MaxLeaves
\* leaves; a leaf may be empty.
RECURSIVE SumSeq(_)
SumSeq(s) == IF s = <<>> THEN 0 ELSE Head(s) + SumSeq(Tail(s))

LeafSizes(m) ==
    {sz \in UNION {[1..n -> 0..m] : n \in 1..MaxLeaves} : SumSeq(sz) = m}

\* The entries of leaf i (from 1) of the entries cut as sz says.
LeafOf(entries, sz, i) ==
    LET before == SumSeq(SubSeq(sz, 1, i - 1))
    IN SubSeq(entries, before + 1, before + sz[i])

\* The location of leaf i of n: leaves lie on the disk in no order of keys.
LeafLoc(i, n) == n + 1 - i

InitIter ==
    \E f \in [0..(MaxKey - 1) -> 0..Len(OriginClasses)], bs \in 1..MaxBatch,
       mode \in {"step", "next_range"} :
      \E sz \in LeafSizes(Len(LeafEntries(f, OriginClasses, 0, MaxKey))) :
        LET entries == LeafEntries(f, OriginClasses, 0, MaxKey)
            n == Len(sz)
            eng == [loc \in 1..n |-> LeafOf(entries, sz, n + 1 - loc)]
            lv == [i \in 1..n |-> LeafLoc(i, n)]
        IN /\ origin = DeviceRanges(f, OriginClasses, MaxKey)
           /\ snap = <<>>
           /\ engine = eng
           /\ mi = new(eng, lv, bs).it
           /\ reads = new(eng, lv, bs).read
           /\ pc = mode
           /\ base_stream = [current |-> None, iter |-> <<>>]
           /\ snap_stream = [current |-> None, iter |-> <<>>]
           /\ emitted = <<>>
           /\ opts = [origin |-> 1, snapshot |-> None, rebase |-> FALSE]
           /\ roots = (1 :> 1)
           /\ details = (1 :> DetailOf(1, SumLen(origin)))
           /\ IdleRun
           /\ IdleStream

\* What a step() call leaves behind.
Stepped(r, err) ==
    /\ mi' = r.it
    /\ reads' = reads \o r.read
    /\ call' = Some([op |-> "step", before |-> mi.pos, err |-> err])
    /\ pc' = IF err THEN "failed" ELSE pc
    /\ UNCHANGED <<input_vars, iter_vars, run_vars, skipped, engine>>

\* step() inside a leaf: inc_pos returns false.
MI_StepEntry ==
    /\ pc = "step"
    /\ mi.pos[1] < Len(mi.leaves)
    /\ ~inc_pos(mi).ret
    /\ Stepped(step(mi, engine), FALSE)

\* step() to the next leaf of the cached batch.
MI_StepLeaf ==
    /\ pc = "step"
    /\ inc_pos(mi).ret
    /\ step(mi, engine).it.pos[1] < Len(mi.leaves)
    /\ step(mi, engine).read = None
    /\ Stepped(step(mi, engine), FALSE)

\* step() to the first leaf of the next batch, which is read.
MI_StepPrefetch ==
    /\ pc = "step"
    /\ inc_pos(mi).ret
    /\ step(mi, engine).read # None
    /\ Stepped(step(mi, engine), FALSE)

\* step() past the last leaf.
MI_StepLast ==
    /\ pc = "step"
    /\ inc_pos(mi).ret
    /\ step(mi, engine).it.pos[1] = Len(mi.leaves)
    /\ Stepped(step(mi, engine), FALSE)

\* step() at the end of the leaves.
MI_StepAtEnd ==
    /\ pc = "step"
    /\ mi.pos[1] = Len(mi.leaves)
    /\ Stepped(step(mi, engine), FALSE)

\* step() whose next_node returns Err (a read or a decode error); the caller
\* propagates it and makes no further call.
MI_StepFail ==
    /\ pc = "step"
    /\ inc_pos(mi).ret
    /\ mi.pos[1] + 1 < Len(mi.leaves)
    /\ Stepped([it |-> next_node_err(inc_pos(mi).it), read |-> None], TRUE)

\* next_range() returning Ok; None ends the stream.
MI_NextRange ==
    /\ pc = "next_range"
    /\ LET r == next_range_of(mi, engine)
       IN /\ mi' = r.it
          /\ reads' = reads \o r.reads
          /\ emitted' = emitted \o r.ret
          /\ call' = Some([op |-> "next_range", before |-> mi.pos, err |-> FALSE])
          /\ pc' = IF r.ret = None THEN "done" ELSE pc
    /\ UNCHANGED <<input_vars, base_stream, snap_stream, run_vars, skipped, engine>>

NextIter ==
    \/ MI_StepEntry
    \/ MI_StepLeaf
    \/ MI_StepPrefetch
    \/ MI_StepLast
    \/ MI_StepAtEnd
    \/ MI_StepFail
    \/ MI_NextRange

SpecIter == InitIter /\ [][NextIter]_vars

----------------------------------------------------------------------------
\* Properties of the MappingIterator (checked under SpecIter).

\* The index after the last leaf a read_many call read.
ReadEnd(rd) == rd.first + Len(rd.blocks)

\* The index after the last leaf read so far.
Frontier == ReadEnd(reads[Len(reads)])

\* The leaf at index i (from 0) as the engine holds it, decoded.
LeafNode(i) ==
    unpack_node([loc |-> mi.leaves[i + 1], data |-> engine[mi.leaves[i + 1]]])

DiskEntries == Flatten([i \in 1..Len(mi.leaves) |-> engine[mi.leaves[i]]])

PositionInvariant ==
    /\ mi.pos[1] <= Len(mi.leaves)
    /\ mi.nr_entries = Len(mi.node.keys)
    /\ ~GetPanics(mi)
    /\ mi.pos[1] < Len(mi.leaves) =>
        \/ mi.pos[2] < Len(mi.node.keys)
        \/ mi.node.keys = <<>> /\ mi.pos[2] = 0 /\ get(mi) = None
    /\ mi.pos[1] = Len(mi.leaves) =>
        /\ get(mi) = None
        /\ step(mi, engine) = [it |-> mi, read |-> None]
        /\ (call # None /\ call[1].before = mi.pos) => Frontier = Len(mi.leaves)

\* C33 witness: step() was called at the end of the leaves of a device with
\* an empty leaf among three or more.
PositionWitness ==
    /\ pc = "step"
    /\ mi.pos[1] = Len(mi.leaves)
    /\ call # None
    /\ call[1].before = mi.pos
    /\ Len(mi.leaves) >= 3
    /\ \E loc \in DOMAIN engine : engine[loc] = <<>>
    /\ \E loc \in DOMAIN engine : Len(engine[loc]) >= 2

====
